---- MODULE Spec2Model ----
(***************************************************************************)
(* Polling-based change detection and rate-limited ticketing of the        *)
(* Starvell seller bot.                                                    *)
(*                                                                         *)
(* The subsystems are modelled each with its own specification over        *)
(* the same variables:                                                     *)
(*   SpecOrders       StarvellService.check_new_orders + CacheStorage      *)
(*   SpecMessages     StarvellService.check_new_messages and the delivery  *)
(*                    loop BackgroundTasks._check_new_messages             *)
(*   SpecMessagesDel  the same, with a remote that may also delete         *)
(*                    messages                                             *)
(*   SpecTicket       AutoTicketService and the two scheduler jobs that    *)
(*                    run BackgroundTasks._check_auto_ticket_loop          *)
(*   SpecParse        AutoRaiseService._parse_wait_time                    *)
(*   SpecOptimize     AutoRaiseService._optimize_next_call                 *)
(*   SpecRaise        AutoRaiseService: the loop _raise_loop, _raise_lots  *)
(*                    and _raise_game_lots, and stop()                     *)
(*   SpecJobs         the interval jobs 'check_messages' and               *)
(*                    'check_orders' of the scheduler, and the invocations *)
(*                    of the raise loop                                    *)
(* Every await of the code at which another coroutine or the remote side   *)
(* can act is a step boundary of the model; code between two awaits is one *)
(* atomic step (asyncio runs it without interleaving).                     *)
(***************************************************************************)
EXTENDS Integers, Sequences, FiniteSets, TLC

VARIABLES
    \* ---- remote marketplace (environment) ----
    remoteOrders,      \* order id -> status on the marketplace, NoOrder if the order does not exist
    \* ---- CacheStorage (storage/cache/cache.json) ----
    last_orders,       \* data["last_orders"]: order id -> stored status, NoOrder if no entry
    \* ---- StarvellService.check_new_orders, one invocation at a time ----
    ordPc,             \* "idle" | "get_orders" (awaiting the gateway)
    ordSnapshot,       \* the list get_orders() returned to the last completed poll
    new_orders,        \* the list the last completed poll returned
    ordResult,         \* "none" | "returned" | "raised": how the last poll ended
    ordPolls,          \* number of polls started
    \* ---- observation history of the order polls ----
    obsPrev,           \* order id -> status seen in the previous poll that listed the order
    exEvents,          \* times ExampleOrder was emitted while its polls followed ExampleRun
    exStage,           \* how many polls of ExampleOrder followed ExampleRun so far, -1 once off it
    updatesSince,      \* order id -> remote updates since the order was last listed (capped at 2)
    ordSkipped,        \* orders the last completed poll listed after 2 or more remote updates
    today,             \* datetime.now(), in days since the start of the bot
    stored_on,         \* order id -> day of the "timestamp" of its entry in last_orders
    cleanups,          \* number of runs of the 'cleanup' job
    order_notifications, \* the orders the last completed poll passed to notify_new_order, in order
    \* ---- remote chats (environment) ----
    chatMsgs,          \* chat id -> messages of the chat, oldest first, each [id, author]
    nextMsgId,         \* chat id -> id the next message of the chat gets (ids only grow)
    chatUnread,        \* chat id -> unread count the marketplace reports for the chat
    deletes,           \* number of messages deleted on the marketplace so far
    \* ---- configuration ----
    autoRead,          \* BotConfig.AUTO_READ_ENABLED()
    \* ---- CacheStorage ----
    last_messages,     \* data["last_messages"]: chat id -> stored message id, NoMessage if none
    \* ---- StarvellService.check_new_messages, one invocation at a time ----
    msgPc,             \* "idle" | "chats" | "mark_read" | "deliver"
    snapUnread,        \* chat id -> unread count in the list get_chats() returned
    pollQueue,         \* unread_chats still to be processed, in list order
    readChat,          \* the chat whose mark_chat_as_read call is awaited
    new_messages,      \* events collected by the running call / returned by the last one
    msgResult,         \* "none" | "returned" | "raised": how the last service call ended
    msgPolls,          \* number of polls started
    \* ---- BackgroundTasks._check_new_messages ----
    deliverIdx,        \* index in new_messages of the event the delivery loop handles next
    seen_messages,     \* self._seen_messages: chat id -> set of message ids
    myIdCached,        \* hasattr(self, '_my_user_id')
    \* ---- history of the message polls ----
    notified,          \* chat id -> message id -> number of notifier calls made for it
    lastProc,          \* what the last processing of a chat saw and did
    lastDeliver,       \* what the delivery loop did with the last event it handled
    fetchFailed,       \* chats whose get_messages failed in the current or last poll
    processed,         \* chats whose processing finished in the current or last poll
    \* ---- clock and configuration of the auto-tickets ----
    now,               \* time.time(), in seconds since the first start of the bot
    interval,          \* BotConfig.AUTO_TICKET_INTERVAL()
    \* ---- AutoTicketService ----
    last_ticket_time,  \* self._last_ticket_time, NoTime if no ticket was sent
    ticketFile,        \* cache/last_ticket_time.json
    \* ---- BackgroundTasks: scheduler and the two ticket jobs ----
    tkPc,              \* job id -> "idle" | "fetching" | "posting" | "notifying"
    first_run_done,    \* self._auto_ticket_first_run_done
    initPending,       \* the date job 'auto_ticket_init' has not fired yet
    initDue,           \* run_date of 'auto_ticket_init'
    loopNext,          \* next run time of the interval job 'auto_ticket'
    restarts,          \* number of restarts of the process
    \* ---- history of the ticket sends ----
    lastSend,          \* time of the last successful send, NoTime if none
    prevSend,          \* time of the successful send before it, NoTime if none
    sentSinceLoad,     \* a send succeeded since the service was constructed
    sendResult,        \* job id -> what send_ticket returned to the running handler, "none" before
    \* ---- AutoRaiseService._parse_wait_time ----
    message,           \* the error message of a bump, lower-cased, as a list of items
    wait_seconds,      \* what _parse_wait_time returned for it, NotParsed before the call
    \* ---- clock and configuration of the auto-raise ----
    clock,             \* int(time.time()) as the auto-raise service reads it
    bumpEnabled,       \* BotConfig.AUTO_BUMP_ENABLED()
    bump_interval,     \* BotConfig.AUTO_BUMP_INTERVAL()
    \* ---- AutoRaiseService ----
    raise_time,        \* self.raise_time: game id -> time of the next bump, 0 if no entry
    raised_time,       \* self.raised_time: game id -> time of the last successful bump
    force_check,       \* self._force_check is set
    end_time,          \* end_time of the running step of _sleep_with_countdown, else 0
    raisePc,           \* where the task of _raise_loop is suspended
    stop_called,       \* stop() has cancelled the task
    \* ---- the running invocation of _raise_lots ----
    current_time,      \* current_time of the running or last invocation
    all_next_times,    \* the times collected in all_next_times
    todo,              \* games of game_categories the loop has not reached yet
    game,              \* the game whose bump is awaited
    next_time,         \* what the last invocation returned, NotPlanned before
    \* ---- history of the auto-raise ----
    lastAttempt,       \* the last finished bump attempt: game, outcome, times
    runs,              \* number of invocations of _raise_lots started
    lastRun,           \* how the last invocation went: start, end, games bumped and skipped
    rounded_wake,      \* the last wake-up time _optimize_next_call rounded, 0 if none
    toggles,           \* number of times the operator has switched auto-bump
    lastWake,          \* how the last wait of the loop ended: by its timer or by the event
    \* ---- the scheduler of BackgroundTasks and the task of the raise loop ----
    schedulerRunning,  \* the scheduler has been started and not shut down
    running,           \* job id -> number of invocations of the job that are running
    ticks,             \* number of intervals of the two jobs that have elapsed
    invoked,           \* job id -> number of invocations started
    failed,            \* job id -> number of invocations whose handler body raised
    skipped,           \* job id -> ticks skipped because the job's instance was still running
    \* ---- StarvellService: the notification of a stale session ----
    session_error_notified, \* self._session_error_notified
    svcPc,             \* job -> where its call of the service is suspended
    notifications,     \* number of notify_all_admins calls since the last start()
    notFoundErrors,    \* number of calls that failed with NotFoundError since the last start()
    svcStarts,         \* number of calls of start()
    \* ---- StarAPI._get_next_data and SessionManager.get_json ----
    build_id,          \* BuildIdCache._build_id, NoBuild if None
    serverBuild,       \* the build the site serves now
    reqPc,             \* caller -> where its call of _get_next_data is suspended
    nd_attempt,        \* caller -> attempt of the loop of _get_next_data
    attempt,           \* caller -> attempt of the loop of get_json
    url_build,         \* caller -> the build id in the url of its request
    reqResult,         \* caller -> what its last call returned or raised
    resets,            \* caller -> calls of BuildIdCache.reset in its call
    delays,            \* caller -> the sleeps between the attempts of its get_json, in order
    reqCalls,          \* caller -> number of calls of _get_next_data started
    \* ---- StarvellService._lock (asyncio.Lock) and the coroutines that take it ----
    locked,            \* Lock._locked
    waiters,           \* Lock._waiters: the coroutines suspended in acquire(), oldest first
    woken,             \* the waiters whose future release() has completed
    lkPc,              \* coroutine -> where its call of the service is
    lkCalls,           \* coroutine -> number of calls of the service it started
    \* ---- the file cache.json and the jobs that rewrite it ----
    cacheFile,         \* the data in the file: the id stored for a chat, the status stored for an order, an old entry
    stData,            \* job -> the dict 'data' its storage call read from the file
    stPc,              \* job -> "idle" | "loaded" (between _read and _write of its storage call)
    loopOwner,         \* the job the event loop is running, "none" when every job is suspended
    doneMsg,           \* the message id of the last completed set_last_message
    doneOrd,           \* the status (as a number) of the last completed set_last_order
    stOps,             \* job -> number of storage calls it started
    \* ---- the job 'auto_bump' of the scheduler of BackgroundTasks ----
    auto_bump_jobs,    \* number of jobs with id 'auto_bump' the scheduler holds
    lastToggle,        \* "none" | "on" | "off": the argument of the last toggle_auto_bump
    toggleCalls,       \* number of calls of toggle_auto_bump
    autoBumpRuns,      \* number of times the scheduler has run _auto_bump
    schedulerCalls,    \* number of add_job and remove_job calls toggle_auto_bump has made
    \* ---- BuildIdCache: its lock and the callers of get() ----
    cached_at,         \* BuildIdCache._cached_at
    wallTime,          \* time.time()
    cacheLocked,       \* BuildIdCache._lock._locked
    cacheWaiters,      \* the callers suspended in the acquire() of the lock, oldest first
    getPc,             \* caller -> "idle" | "waiting" | "woken" | "fetching"
    getNow,            \* caller -> its local 'now' while it fetches, 0 otherwise
    getWaited,         \* caller -> its call of get() was suspended in acquire()
    getFetched,        \* caller -> its call of get() called fetch_func
    getResult,         \* caller -> what its last get() returned, NoBuild if it raised or never ran
    getCalls,          \* number of calls of get() started
    lastFetch,         \* "none" | "ok" | "failed": how the last fetch_func call ended
    resetSince         \* reset() was called after the last fetch_func call ended

ordVars == <<remoteOrders, last_orders, ordPc, ordSnapshot, new_orders, ordResult,
             ordPolls, obsPrev, exEvents, exStage, updatesSince, ordSkipped, today,
             stored_on, cleanups, order_notifications>>

msgVars == <<chatMsgs, nextMsgId, chatUnread, deletes, autoRead, last_messages, msgPc,
             snapUnread, pollQueue, readChat, new_messages, msgResult, msgPolls,
             deliverIdx, seen_messages, myIdCached, notified, lastProc, lastDeliver,
             fetchFailed, processed>>

tkVars == <<now, interval, last_ticket_time, ticketFile, tkPc, first_run_done,
            initPending, initDue, loopNext, restarts, lastSend, prevSend, sentSinceLoad,
            sendResult>>

parseVars == <<message, wait_seconds>>

raiseVars == <<clock, bumpEnabled, bump_interval, raise_time, raisePc, stop_called,
               current_time, all_next_times, todo, game, next_time, lastAttempt, runs,
               lastRun, rounded_wake, raised_time, force_check, end_time, toggles,
               lastWake>>

jobVars == <<schedulerRunning, running, ticks, invoked, failed, skipped>>

lockVars == <<locked, waiters, woken, lkPc, lkCalls>>

storeVars == <<cacheFile, stData, stPc, loopOwner, doneMsg, doneOrd, stOps>>

toggleVars == <<auto_bump_jobs, lastToggle, toggleCalls, autoBumpRuns, schedulerCalls>>

buildVars == <<cached_at, wallTime, cacheLocked, cacheWaiters, getPc, getNow, getWaited,
               getFetched, getResult, getCalls, lastFetch, resetSince>>

extVars == <<lockVars, storeVars, toggleVars, buildVars>>

gwVars == <<session_error_notified, svcPc, notifications, notFoundErrors, svcStarts,
            build_id, serverBuild, reqPc, nd_attempt, attempt, url_build, reqResult,
            resets, delays, reqCalls, extVars>>

vars == <<ordVars, msgVars, tkVars, parseVars, raiseVars, jobVars, gwVars>>

-----------------------------------------------------------------------------
(* Bounds of the model *)

\* polls of check_new_orders in one behaviour
MaxPolls == 5

\* polls of check_new_messages in one behaviour
MaxMsgPolls == 2

\* messages created over all chats (any author, any chat)
MaxMsgs == 2

\* messages beyond the fetch window that one chat may hold when only buyers
\* write and only to that chat
MaxOverflow == 1

\* messages the marketplace deletes in one behaviour
MaxDeletes == 1

\* seconds of clock time in one behaviour
MaxTime == 24

\* restarts of the process in one behaviour
MaxRestarts == 1

\* quantities (a number and a unit word) in one error message
MaxQuantities == 2

\* times in the list _optimize_next_call is given
MaxCandidates == 3

\* iterations of the loop _raise_loop in one behaviour
MaxRuns == 4
MaxToggles == 2
MaxWeeks == 1
MaxCleanups == 1
MaxNotFound == 3
MaxServiceRestarts == 1
MaxCalls == 2
MaxDeploys == 1
MaxGetCalls == 4
MaxWallTime == 2

\* calls of the service by one coroutine in one behaviour
MaxLockCalls == 2

\* storage calls of one job in one behaviour
MaxStoreOps == 3

\* calls of toggle_auto_bump in one behaviour
MaxToggleCalls == 4

\* runs of the job 'auto_bump' in one behaviour
MaxAutoBumpRuns == 6

\* intervals of the jobs 'check_messages' and 'check_orders' in one behaviour
MaxTicks == 10

-----------------------------------------------------------------------------
(* Orders: StarvellService.check_new_orders and CacheStorage *)

OrderIds == {1, 2}
OrderStatuses == {"CREATED", "PAID", "COMPLETED"}
NoOrder == "NONE"

\* CacheStorage.get_last_order: the stored entry, None when there is none
get_last_order(cache, order_id) == cache[order_id]

\* a set_last_order that stores nothing
set_last_order_Dropped(cache, order_id, status) == cache

\* CacheStorage.set_last_order: read the file, replace the entry, write the file
set_last_order(cache, order_id, status) == [cache EXCEPT ![order_id] = status]

\* a loop body that emits a changed order without storing its new status
CheckOneOrder_ChangeNotStored(acc, order) ==
    LET last_known == get_last_order(acc.cache, order.id) IN
    IF last_known = NoOrder
      THEN [new_orders |-> Append(acc.new_orders, order),
            cache |-> set_last_order(acc.cache, order.id, order.status)]
      ELSE IF last_known # order.status
        THEN [new_orders |-> Append(acc.new_orders, order), cache |-> acc.cache]
        ELSE acc

\* the body of the for loop of check_new_orders for one order of the list;
\* acc is [new_orders, cache]
CheckOneOrder(acc, order) ==
    LET last_known == get_last_order(acc.cache, order.id) IN
    IF last_known = NoOrder
      THEN [new_orders |-> Append(acc.new_orders, order),
            cache |-> set_last_order(acc.cache, order.id, order.status)]
      ELSE IF last_known # order.status
        THEN [new_orders |-> Append(acc.new_orders, order),
              cache |-> set_last_order(acc.cache, order.id, order.status)]
        ELSE acc

\* the for loop of check_new_orders over the fetched list, in list order
RECURSIVE CheckOrdersLoop(_, _)
CheckOrdersLoop(orders, acc) ==
    IF orders = <<>> THEN acc
    ELSE CheckOrdersLoop(Tail(orders), CheckOneOrder(acc, Head(orders)))

\* the list the gateway returns for a set of listed orders: ascending id, current status
RECURSIVE OrderList(_)
OrderList(S) ==
    IF S = {} THEN <<>>
    ELSE LET o == CHOOSE x \in S : \A y \in S : x <= y
         IN <<[id |-> o, status |-> remoteOrders[o]]>> \o OrderList(S \ {o})

\* the statuses one order shows to five successive polls in the documented example
ExampleOrder == CHOOSE o \in OrderIds : \A p \in OrderIds : o <= p
ExampleRun == <<"CREATED", "CREATED", "PAID", "PAID", "COMPLETED">>

\* status = order.get("status", "CREATED") of _check_new_orders
HandlerStatus(order) ==
    IF "status" \in DOMAIN order THEN order.status ELSE "CREATED"

\* a handler that notifies every order it is given
NotifiedOrders_All(events) == events

\* the for loop of _check_new_orders: 'if status != "CREATED": continue',
\* the other orders are passed to notify_new_order, which tells the operator
\* and runs the handlers of the plug-ins
NotifiedOrders(events) ==
    SelectSeq(events, LAMBDA order : HandlerStatus(order) = "CREATED")

Min(a, b) == IF a < b THEN a ELSE b

EventIds(list) == {list[i].id : i \in 1..Len(list)}

InitOrders ==
    /\ remoteOrders = [o \in OrderIds |-> NoOrder]
    /\ last_orders = [o \in OrderIds |-> NoOrder]
    /\ ordPc = "idle"
    /\ ordSnapshot = <<>>
    /\ new_orders = <<>>
    /\ ordResult = "none"
    /\ ordPolls = 0
    /\ obsPrev = [o \in OrderIds |-> NoOrder]
    /\ exEvents = 0
    /\ exStage = 0
    /\ updatesSince = [o \in OrderIds |-> 0]
    /\ ordSkipped = {}
    /\ today = 0
    /\ stored_on = [o \in OrderIds |-> 0]
    /\ cleanups = 0
    /\ order_notifications = <<>>

\* the marketplace creates an order or moves it to another status
RemoteOrderUpdate(o, st) ==
    /\ remoteOrders[o] # st
    /\ remoteOrders' = [remoteOrders EXCEPT ![o] = st]
    /\ updatesSince' = [updatesSince EXCEPT ![o] = Min(updatesSince[o] + 1, 2)]
    /\ UNCHANGED <<last_orders, ordPc, ordSnapshot, new_orders, ordResult, ordPolls,
                   obsPrev, exEvents, exStage, ordSkipped, today, stored_on, cleanups>>
    /\ UNCHANGED order_notifications
    /\ UNCHANGED <<msgVars, tkVars, parseVars, raiseVars, jobVars, gwVars>>

\* the 'check_orders' job fires: _check_new_orders calls check_new_orders,
\* which awaits get_orders()
CheckNewOrdersStart ==
    /\ ordPc = "idle"
    /\ ordPolls < MaxPolls
    /\ ordPc' = "get_orders"
    /\ ordPolls' = ordPolls + 1
    /\ UNCHANGED <<remoteOrders, last_orders, ordSnapshot, new_orders, ordResult,
                   obsPrev, exEvents, exStage, updatesSince, ordSkipped, today, stored_on,
                   cleanups>>
    /\ UNCHANGED order_notifications
    /\ UNCHANGED <<msgVars, tkVars, parseVars, raiseVars, jobVars, gwVars>>

\* get_orders() returns the orders listed now; the loop runs to the end
\* (the storage calls it awaits never suspend) and the list is returned to
\* _check_new_orders, which passes the orders it notifies to notify_new_order
CheckNewOrdersFetched(listed) ==
    /\ ordPc = "get_orders"
    /\ LET orders == OrderList(listed)
           res == CheckOrdersLoop(orders, [new_orders |-> <<>>, cache |-> last_orders])
       IN /\ ordSnapshot' = orders
          /\ new_orders' = res.new_orders
          /\ order_notifications' = NotifiedOrders(res.new_orders)
          /\ last_orders' = res.cache
          /\ stored_on' = [o \in OrderIds |->
                             IF o \in EventIds(res.new_orders) THEN today ELSE stored_on[o]]
          /\ obsPrev' = [o \in OrderIds |-> IF o \in listed THEN remoteOrders[o] ELSE obsPrev[o]]
          /\ exStage' = IF ExampleOrder \notin listed THEN exStage
                        ELSE IF /\ exStage >= 0
                                /\ exStage < Len(ExampleRun)
                                /\ remoteOrders[ExampleOrder] = ExampleRun[exStage + 1]
                               THEN exStage + 1 ELSE -1
          /\ exEvents' = IF exStage' = -1 THEN 0
                         ELSE IF ExampleOrder \in EventIds(res.new_orders)
                           THEN exEvents + 1 ELSE exEvents
          /\ updatesSince' = [o \in OrderIds |-> IF o \in listed THEN 0 ELSE updatesSince[o]]
          /\ ordSkipped' = {o \in listed : obsPrev[o] # NoOrder /\ updatesSince[o] >= 2}
    /\ ordResult' = "returned"
    /\ ordPc' = "idle"
    /\ UNCHANGED <<remoteOrders, ordPolls, today, cleanups>>
    /\ UNCHANGED <<msgVars, tkVars, parseVars, raiseVars, jobVars, gwVars>>

\* get_orders() raises: check_new_orders raises, _check_new_orders logs it
CheckNewOrdersFailed ==
    /\ ordPc = "get_orders"
    /\ ordResult' = "raised"
    /\ ordPc' = "idle"
    /\ UNCHANGED <<remoteOrders, last_orders, ordSnapshot, new_orders, ordPolls,
                   obsPrev, exEvents, exStage, updatesSince, ordSkipped, today, stored_on,
                   cleanups>>
    /\ UNCHANGED order_notifications
    /\ UNCHANGED <<msgVars, tkVars, parseVars, raiseVars, jobVars, gwVars>>

ListedNow == {o \in OrderIds : remoteOrders[o] # NoOrder}

\* await self.db.cleanup(days=7)
CacheDays == 7

\* CacheDays days pass without a run of the jobs
DaysPass ==
    /\ today < MaxWeeks * CacheDays
    /\ today' = today + CacheDays
    /\ UNCHANGED <<remoteOrders, last_orders, ordPc, ordSnapshot, new_orders, ordResult,
                   ordPolls, obsPrev, exEvents, exStage, updatesSince, ordSkipped,
                   stored_on, cleanups>>
    /\ UNCHANGED order_notifications
    /\ UNCHANGED <<msgVars, tkVars, parseVars, raiseVars, jobVars, gwVars>>

\* the entries clear_old_cache keeps: those with timestamp > cutoff
KeptEntries(cache, stamps, day) ==
    [o \in OrderIds |-> IF cache[o] # NoOrder /\ stamps[o] > day - CacheDays
                         THEN cache[o] ELSE NoOrder]

\* the 'cleanup' job: clear_old_cache(7) reads the file, drops the entries
\* whose timestamp is not after the cutoff and writes the file; none of its
\* awaits suspends, so it runs between two steps of the order poll
ClearOldCache ==
    /\ cleanups < MaxCleanups
    /\ cleanups' = cleanups + 1
    /\ last_orders' = KeptEntries(last_orders, stored_on, today)
    /\ UNCHANGED <<remoteOrders, ordPc, ordSnapshot, new_orders, ordResult,
                   ordPolls, obsPrev, exEvents, exStage, updatesSince, ordSkipped,
                   today, stored_on>>
    /\ UNCHANGED order_notifications
    /\ UNCHANGED <<msgVars, tkVars, parseVars, raiseVars, jobVars, gwVars>>

NextOrders ==
    \/ \E o \in OrderIds, st \in OrderStatuses : RemoteOrderUpdate(o, st)
    \/ CheckNewOrdersStart
    \/ \E listed \in SUBSET ListedNow : CheckNewOrdersFetched(listed)
    \/ CheckNewOrdersFailed

\* the order polls together with the daily cleanup, on a marketplace that
\* lists every order it has
NextOrdersCleanup ==
    \/ \E o \in OrderIds, st \in OrderStatuses : RemoteOrderUpdate(o, st)
    \/ CheckNewOrdersStart
    \/ CheckNewOrdersFetched(ListedNow)
    \/ CheckNewOrdersFailed
    \/ DaysPass
    \/ ClearOldCache

-----------------------------------------------------------------------------
(* Messages: StarvellService.check_new_messages, CacheStorage and          *)
(* BackgroundTasks._check_new_messages                                     *)

ChatIds == {1, 2}
\* who wrote a message: a buyer, the authenticated seller, a user with a
\* Blacklist.<id> section in the configuration, a user with a support role
Authors == {"buyer", "me", "blocked", "support"}
NoMessage == 0
NoChat == 0

\* limit=10 of the get_messages call in check_new_messages
MessagesLimit == 10

\* the one chat that may grow beyond the fetch window
DeepChat == CHOOSE c \in ChatIds : \A d \in ChatIds : c <= d
MaxMsgId == MessagesLimit + MaxOverflow + 1

RECURSIVE SumOver(_, _)
SumOver(f, S) ==
    IF S = {} THEN 0
    ELSE LET x == CHOOSE y \in S : TRUE IN f[x] + SumOver(f, S \ {x})

\* the list messages/list returns: the newest `limit` messages, newest first
Window(msgs, limit) ==
    LET n == Len(msgs)
        k == Min(n, limit)
    IN [i \in 1..k |-> msgs[n - i + 1]]

Ids(list) == [i \in 1..Len(list) |-> list[i].id]
IdSet(list) == {list[i].id : i \in 1..Len(list)}

\* CacheStorage.get_last_message
get_last_message(cache, chat_id) == cache[chat_id]

\* a set_last_message that never lets go of a stored id
set_last_message_KeepOld(cache, chat_id, message_id) ==
    IF cache[chat_id] # NoMessage THEN cache ELSE [cache EXCEPT ![chat_id] = message_id]

\* CacheStorage.set_last_message: read the file, replace the entry, write the file
set_last_message(cache, chat_id, message_id) == [cache EXCEPT ![chat_id] = message_id]

\* a first-run branch that takes the whole fetched window as new
FirstRunEvents_WholeWindow(messages, unread_count) == messages

\* first observation of a chat: the newest min(unread_count, len(messages)) messages
FirstRunEvents(messages, unread_count) ==
    SubSeq(messages, 1, Min(unread_count, Len(messages)))

\* the scan of the fetched list, newest first, up to the stored id (break)
RECURSIVE ScanUntilCursor(_, _)
ScanUntilCursor(messages, last_known_id) ==
    IF messages = <<>> THEN <<>>
    ELSE IF Head(messages).id = last_known_id THEN <<>>
    ELSE <<Head(messages)>> \o ScanUntilCursor(Tail(messages), last_known_id)

\* the id stored on the first observation of a chat: messages[0].get("id")
FirstRunCursor(messages) == Head(messages).id

\* a cursor update that takes the other end of the fetched list
AdvancedCursor_Oldest(messages) == messages[Len(messages)].id

\* the id stored after the scan: latest_id = messages[0].get("id")
AdvancedCursor(messages) == Head(messages).id

\* the events of one chat as they are appended to new_messages
ChatEvents(chat_id, list) ==
    [i \in 1..Len(list) |-> [chat_id |-> chat_id, id |-> list[i].id, author |-> list[i].author]]

\* unread_chats of check_new_messages: the chats with a positive unread count, in list order
RECURSIVE UnreadChats(_, _)
UnreadChats(unread, S) ==
    IF S = {} THEN <<>>
    ELSE LET c == CHOOSE x \in S : \A y \in S : x <= y
         IN (IF unread[c] > 0 THEN <<c>> ELSE <<>>) \o UnreadChats(unread, S \ {c})

NoProc == [chat |-> NoChat, first |-> FALSE, unread |-> 0, cursor |-> NoMessage,
           found |-> FALSE, window |-> <<>>, events |-> <<>>]
NoDeliver == [chat |-> NoChat, id |-> NoMessage, author |-> "buyer", outcome |-> "none"]

InitMessagesIdle ==
    /\ chatMsgs = [c \in ChatIds |-> <<>>]
    /\ nextMsgId = [c \in ChatIds |-> 1]
    /\ chatUnread = [c \in ChatIds |-> 0]
    /\ deletes = 0
    /\ last_messages = [c \in ChatIds |-> NoMessage]
    /\ msgPc = "idle"
    /\ snapUnread = [c \in ChatIds |-> 0]
    /\ pollQueue = <<>>
    /\ readChat = NoChat
    /\ new_messages = <<>>
    /\ msgResult = "none"
    /\ msgPolls = 0
    /\ deliverIdx = 1
    /\ seen_messages = [c \in ChatIds |-> {}]
    /\ myIdCached = FALSE
    /\ notified = [c \in ChatIds |-> [m \in 1..MaxMsgId |-> 0]]
    /\ lastProc = NoProc
    /\ lastDeliver = NoDeliver
    /\ fetchFailed = {}
    /\ processed = {}

InitMessages == InitMessagesIdle /\ autoRead \in BOOLEAN

\* ---- the marketplace ----

\* The delivery loop neither reads nor writes the marketplace's chats, so a
\* change of the marketplace during the loop is the same change after it.
RemoteMayAct == msgPc # "deliver"

Created(c) == nextMsgId[c] - 1
TotalCreated == SumOver([c \in ChatIds |-> Created(c)], ChatIds)

\* the buyer messages m, m+1, ..., m+k-1
RECURSIVE BuyerMessages(_, _)
BuyerMessages(m, k) ==
    IF k = 0 THEN <<>>
    ELSE <<[id |-> m, author |-> "buyer"]>> \o BuyerMessages(m + 1, k - 1)

\* somebody writes to a chat; a message of anybody but the seller is unread
RemoteNewMessage(c, a) ==
    /\ RemoteMayAct
    /\ TotalCreated < MaxMsgs
    /\ chatMsgs' = [chatMsgs EXCEPT ![c] = Append(@, [id |-> nextMsgId[c], author |-> a])]
    /\ nextMsgId' = [nextMsgId EXCEPT ![c] = @ + 1]
    /\ chatUnread' = [chatUnread EXCEPT ![c] = IF a = "me" THEN @ ELSE @ + 1]
    /\ UNCHANGED <<deletes, autoRead, last_messages, msgPc, snapUnread, pollQueue, readChat,
                   new_messages, msgResult, msgPolls, deliverIdx, seen_messages, myIdCached,
                   notified, lastProc, lastDeliver, fetchFailed, processed>>
    /\ UNCHANGED <<ordVars, tkVars, parseVars, raiseVars, jobVars, gwVars>>

\* a buyer sends k messages to the one chat that has traffic between two steps
\* of the bot: three of them, or a whole fetch window
BurstSizes == {3, MessagesLimit}

RemoteBurst(k) ==
    /\ RemoteMayAct
    /\ \A d \in ChatIds \ {DeepChat} : Created(d) = 0
    /\ \A i \in 1..Len(chatMsgs[DeepChat]) : chatMsgs[DeepChat][i].author = "buyer"
    /\ Created(DeepChat) <= MaxOverflow
    /\ chatMsgs' = [chatMsgs EXCEPT
                      ![DeepChat] = @ \o BuyerMessages(nextMsgId[DeepChat], k)]
    /\ nextMsgId' = [nextMsgId EXCEPT ![DeepChat] = @ + k]
    /\ chatUnread' = [chatUnread EXCEPT ![DeepChat] = @ + k]
    /\ UNCHANGED <<deletes, autoRead, last_messages, msgPc, snapUnread, pollQueue, readChat,
                   new_messages, msgResult, msgPolls, deliverIdx, seen_messages, myIdCached,
                   notified, lastProc, lastDeliver, fetchFailed, processed>>
    /\ UNCHANGED <<ordVars, tkVars, parseVars, raiseVars, jobVars, gwVars>>

\* the seller opens the chat on the site: the marketplace resets the unread count
RemoteChatRead(c) ==
    /\ RemoteMayAct
    /\ chatUnread[c] > 0
    /\ chatUnread' = [chatUnread EXCEPT ![c] = 0]
    /\ UNCHANGED <<chatMsgs, nextMsgId, deletes, autoRead, last_messages, msgPc, snapUnread,
                   pollQueue, readChat, new_messages, msgResult, msgPolls, deliverIdx,
                   seen_messages, myIdCached, notified, lastProc, lastDeliver, fetchFailed,
                   processed>>
    /\ UNCHANGED <<ordVars, tkVars, parseVars, raiseVars, jobVars, gwVars>>

\* the marketplace removes a message from a chat
RemoteDeleteMessage(c, i) ==
    /\ RemoteMayAct
    /\ deletes < MaxDeletes
    /\ i \in 1..Len(chatMsgs[c])
    /\ chatMsgs' = [chatMsgs EXCEPT ![c] = SubSeq(@, 1, i - 1) \o SubSeq(@, i + 1, Len(@))]
    /\ deletes' = deletes + 1
    /\ UNCHANGED <<nextMsgId, chatUnread, autoRead, last_messages, msgPc, snapUnread,
                   pollQueue, readChat, new_messages, msgResult, msgPolls, deliverIdx,
                   seen_messages, myIdCached, notified, lastProc, lastDeliver, fetchFailed,
                   processed>>
    /\ UNCHANGED <<ordVars, tkVars, parseVars, raiseVars, jobVars, gwVars>>

\* ---- StarvellService.check_new_messages ----

\* where the call stands once a chat is done: next chat, or return the list to
\* _check_new_messages, whose loop runs only over a non-empty list
AfterChat(queue, events) ==
    IF queue # <<>> THEN "chats" ELSE IF events # <<>> THEN "deliver" ELSE "idle"

\* the 'check_messages' job fires and get_chats() returns the chat list
CheckNewMessagesStart ==
    /\ msgPc = "idle"
    /\ msgPolls < MaxMsgPolls
    /\ msgPolls' = msgPolls + 1
    /\ snapUnread' = chatUnread
    /\ pollQueue' = UnreadChats(chatUnread, ChatIds)
    /\ new_messages' = <<>>
    /\ fetchFailed' = {}
    /\ processed' = {}
    /\ deliverIdx' = 1
    /\ msgPc' = AfterChat(pollQueue', <<>>)
    /\ msgResult' = IF pollQueue' = <<>> THEN "returned" ELSE msgResult
    /\ UNCHANGED <<chatMsgs, nextMsgId, chatUnread, deletes, autoRead, last_messages,
                   readChat, seen_messages, myIdCached, notified, lastProc, lastDeliver>>
    /\ UNCHANGED <<ordVars, tkVars, parseVars, raiseVars, jobVars, gwVars>>

\* get_chats() raises: check_new_messages raises, _check_new_messages logs it
CheckNewMessagesGetChatsFailed ==
    /\ msgPc = "idle"
    /\ msgPolls < MaxMsgPolls
    /\ msgPolls' = msgPolls + 1
    /\ msgResult' = "raised"
    /\ new_messages' = <<>>
    /\ fetchFailed' = {}
    /\ processed' = {}
    /\ UNCHANGED <<chatMsgs, nextMsgId, chatUnread, deletes, autoRead, last_messages, msgPc,
                   snapUnread, pollQueue, readChat, deliverIdx, seen_messages, myIdCached,
                   notified, lastProc, lastDeliver>>
    /\ UNCHANGED <<ordVars, tkVars, parseVars, raiseVars, jobVars, gwVars>>

\* one pass of the for loop over unread_chats, up to the next await that
\* suspends: get_messages() returned `messages` for the chat at the head
ProcessChat ==
    /\ msgPc = "chats"
    /\ pollQueue # <<>>
    /\ LET chat_id == Head(pollQueue)
           last_known_id == get_last_message(last_messages, chat_id)
           messages == Window(chatMsgs[chat_id], MessagesLimit)
           first == last_known_id = NoMessage
           found == last_known_id \in IdSet(messages)
           chat_new == IF messages = <<>> THEN <<>>
                       ELSE IF first THEN FirstRunEvents(messages, snapUnread[chat_id])
                       ELSE ScanUntilCursor(messages, last_known_id)
           toRead == /\ messages # <<>>
                     /\ autoRead
                     /\ (first => chat_new # <<>>)
           all == new_messages \o ChatEvents(chat_id, chat_new)
       IN /\ new_messages' = all
          /\ last_messages' = IF messages = <<>> THEN last_messages
                              ELSE set_last_message(last_messages, chat_id,
                                       IF first THEN FirstRunCursor(messages)
                                       ELSE AdvancedCursor(messages))
          /\ lastProc' = [chat |-> chat_id, first |-> first, unread |-> snapUnread[chat_id],
                          cursor |-> last_known_id, found |-> found,
                          window |-> Ids(messages), events |-> Ids(chat_new)]
          /\ IF toRead
               THEN /\ msgPc' = "mark_read"
                    /\ readChat' = chat_id
                    /\ UNCHANGED <<pollQueue, processed, msgResult>>
               ELSE /\ pollQueue' = Tail(pollQueue)
                    /\ processed' = processed \cup {chat_id}
                    /\ msgPc' = AfterChat(Tail(pollQueue), all)
                    /\ msgResult' = IF Tail(pollQueue) = <<>> THEN "returned" ELSE msgResult
                    /\ UNCHANGED readChat
    /\ UNCHANGED <<chatMsgs, nextMsgId, chatUnread, deletes, autoRead, snapUnread, msgPolls,
                   deliverIdx, seen_messages, myIdCached, notified, lastDeliver, fetchFailed>>
    /\ UNCHANGED <<ordVars, tkVars, parseVars, raiseVars, jobVars, gwVars>>

\* get_messages() raises for the chat at the head: nothing catches it inside
\* check_new_messages, the call raises and the collected events are dropped
ProcessChatFetchFailed ==
    /\ msgPc = "chats"
    /\ pollQueue # <<>>
    /\ fetchFailed' = fetchFailed \cup {Head(pollQueue)}
    /\ msgPc' = "idle"
    /\ msgResult' = "raised"
    /\ new_messages' = <<>>
    /\ UNCHANGED <<chatMsgs, nextMsgId, chatUnread, deletes, autoRead, last_messages,
                   snapUnread, pollQueue, readChat, msgPolls, deliverIdx, seen_messages,
                   myIdCached, notified, lastProc, lastDeliver, processed>>
    /\ UNCHANGED <<ordVars, tkVars, parseVars, raiseVars, jobVars, gwVars>>

\* mark_chat_as_read() returns: the marketplace resets the unread count
MarkReadDone ==
    /\ msgPc = "mark_read"
    /\ chatUnread' = [chatUnread EXCEPT ![readChat] = 0]
    /\ pollQueue' = Tail(pollQueue)
    /\ processed' = processed \cup {readChat}
    /\ readChat' = NoChat
    /\ msgPc' = AfterChat(Tail(pollQueue), new_messages)
    /\ msgResult' = IF Tail(pollQueue) = <<>> THEN "returned" ELSE msgResult
    /\ UNCHANGED <<chatMsgs, nextMsgId, deletes, autoRead, last_messages, snapUnread,
                   new_messages, msgPolls, deliverIdx, seen_messages, myIdCached, notified,
                   lastProc, lastDeliver, fetchFailed>>
    /\ UNCHANGED <<ordVars, tkVars, parseVars, raiseVars, jobVars, gwVars>>

\* mark_chat_as_read() raises: the call raises and the collected events are dropped
MarkReadFailed ==
    /\ msgPc = "mark_read"
    /\ readChat' = NoChat
    /\ msgPc' = "idle"
    /\ msgResult' = "raised"
    /\ new_messages' = <<>>
    /\ UNCHANGED <<chatMsgs, nextMsgId, chatUnread, deletes, autoRead, last_messages,
                   snapUnread, pollQueue, msgPolls, deliverIdx, seen_messages, myIdCached,
                   notified, lastProc, lastDeliver, fetchFailed, processed>>
    /\ UNCHANGED <<ordVars, tkVars, parseVars, raiseVars, jobVars, gwVars>>

\* ---- BackgroundTasks._check_new_messages: the loop over new_messages ----

\* the own-message test: str(author_id) == self._my_user_id, skipped (except:
\* pass) when the own id is neither cached nor obtained from get_user_info()
IsOwnMessage(author, idKnown) == idKnown /\ author = "me"

\* a duplicate test that never finds an id
AlreadySeen_Never(seen, chat_id, message_id) == FALSE

\* message_id and message_id in self._seen_messages[chat_id]
AlreadySeen(seen, chat_id, message_id) == message_id \in seen[chat_id]

\* what the loop body does with one event; userInfoOk tells how get_user_info()
\* ends if it is called
DeliverOutcome(ev, userInfoOk) ==
    IF ev.author = "blocked" THEN "blacklisted"
    ELSE IF IsOwnMessage(ev.author, myIdCached \/ userInfoOk) THEN "own"
    ELSE IF AlreadySeen(seen_messages, ev.chat_id, ev.id) THEN "seen"
    ELSE IF ev.author = "support" THEN "no_such_method"
    ELSE "notified"

\* one pass of the for loop over new_messages
DeliverNext(userInfoOk) ==
    /\ msgPc = "deliver"
    /\ deliverIdx <= Len(new_messages)
    /\ (myIdCached => userInfoOk)
    /\ LET ev == new_messages[deliverIdx]
           outcome == DeliverOutcome(ev, userInfoOk)
       IN /\ lastDeliver' = [chat |-> ev.chat_id, id |-> ev.id, author |-> ev.author,
                             outcome |-> outcome]
          /\ myIdCached' = IF ev.author = "blocked" THEN myIdCached
                           ELSE (myIdCached \/ userInfoOk)
          /\ notified' = IF outcome = "notified"
                           THEN [notified EXCEPT ![ev.chat_id][ev.id] = @ + 1]
                           ELSE notified
          /\ seen_messages' = IF outcome = "notified"
                                THEN [seen_messages EXCEPT ![ev.chat_id] = @ \cup {ev.id}]
                                ELSE seen_messages
          /\ IF outcome = "no_such_method" \/ deliverIdx = Len(new_messages)
               THEN /\ msgPc' = "idle"
                    /\ deliverIdx' = 1
               ELSE /\ msgPc' = "deliver"
                    /\ deliverIdx' = deliverIdx + 1
    /\ UNCHANGED <<chatMsgs, nextMsgId, chatUnread, deletes, autoRead, last_messages,
                   snapUnread, pollQueue, readChat, new_messages, msgResult, msgPolls,
                   lastProc, fetchFailed, processed>>
    /\ UNCHANGED <<ordVars, tkVars, parseVars, raiseVars, jobVars, gwVars>>

\* the steps of the bot: one poll of the 'check_messages' job
NextPoll ==
    \/ CheckNewMessagesStart
    \/ CheckNewMessagesGetChatsFailed
    \/ ProcessChat
    \/ ProcessChatFetchFailed
    \/ MarkReadDone
    \/ MarkReadFailed
    \/ \E ok \in BOOLEAN : DeliverNext(ok)

\* a marketplace on which messages only arrive
NextMessages ==
    \/ \E c \in ChatIds, a \in Authors : RemoteNewMessage(c, a)
    \/ \E k \in BurstSizes : RemoteBurst(k)
    \/ \E c \in ChatIds : RemoteChatRead(c)
    \/ NextPoll

\* a marketplace on which messages arrive and are deleted
NextMessagesDel ==
    \/ \E c \in ChatIds, a \in Authors : RemoteNewMessage(c, a)
    \/ \E c \in ChatIds, i \in 1..MaxMsgs : RemoteDeleteMessage(c, i)
    \/ NextPoll

-----------------------------------------------------------------------------
(* Auto-tickets: AutoTicketService and the two scheduler jobs that run
   BackgroundTasks._check_auto_ticket_loop.  The jobs are coroutines of one
   event loop: a step below is the code between two awaits. *)

TicketJobs == {"auto_ticket_init", "auto_ticket"}

NoTime == 0

\* timedelta(seconds=10): delay of the first check after start()
FirstRunDelay == 10

\* the default of AUTO_TICKET_INTERVAL
DefaultTicketInterval == 3600

\* values of AUTO_TICKET_INTERVAL the configuration may hold (no minimum is enforced)
TicketIntervals == {FirstRunDelay, 2 * FirstRunDelay}

NoFile == [kind |-> "absent", last_ticket_time |-> NoTime]

\* the file after a write that stopped before the JSON text was complete
BrokenFile == [kind |-> "broken", last_ticket_time |-> NoTime]

\* json.dump({'last_ticket_time': t, 'last_ticket_date': ...})
TicketJson(t) == [kind |-> "json", last_ticket_time |-> t]

\* a constructor that ignores the cache file
LoadLastTicketTime_Forget(file) == NoTime

\* AutoTicketService.__init__ and _load_last_ticket_time: 0 unless the file
\* exists and parses; a file that does not parse gives 0 as well
LoadLastTicketTime(file) ==
    IF file.kind = "json" THEN file.last_ticket_time ELSE NoTime

\* _save_last_ticket_time: every exception is caught and logged.
\* outcome "saved": the file holds the new time; "failed": mkdir or open
\* raised, the file is as before; "partial": the write raised after open
\* truncated the file
SaveOutcomes == {"saved", "failed", "partial"}

SaveLastTicketTime(file, t, outcome) ==
    CASE outcome = "saved"   -> TicketJson(t)
      [] outcome = "failed"  -> file
      [] outcome = "partial" -> BrokenFile

\* can_send_ticket
CanSendTicket(last, t, ivl) ==
    IF last = NoTime THEN TRUE
    ELSE LET elapsed == t - last
         IN IF elapsed < ivl THEN FALSE ELSE TRUE

\* state of a freshly started process at time t: AutoTicketService()
\* constructed, BackgroundTasks.start() has added the two jobs
Started(t, file, ivl) ==
    /\ last_ticket_time' = LoadLastTicketTime(file)
    /\ tkPc' = [j \in TicketJobs |-> "idle"]
    /\ first_run_done' = FALSE
    /\ initPending' = TRUE
    /\ initDue' = t + FirstRunDelay
    /\ loopNext' = t + ivl
    /\ sentSinceLoad' = FALSE
    /\ sendResult' = [j \in TicketJobs |-> "none"]

InitTicketService ==
    /\ now = 0
    /\ ticketFile = NoFile
    /\ last_ticket_time = LoadLastTicketTime(NoFile)
    /\ tkPc = [j \in TicketJobs |-> "idle"]
    /\ first_run_done = FALSE
    /\ initPending = TRUE
    /\ initDue = FirstRunDelay
    /\ loopNext = interval
    /\ restarts = 0
    /\ lastSend = NoTime
    /\ prevSend = NoTime
    /\ sentSinceLoad = FALSE
    /\ sendResult = [j \in TicketJobs |-> "none"]

InitTicketIdle == interval = DefaultTicketInterval /\ InitTicketService

InitTicket == interval \in TicketIntervals /\ InitTicketService

\* a job of the scheduler is due and has not been run
InitJobDue == initPending /\ now >= initDue
LoopJobDue == now >= loopNext

\* the clock advances by one second; the scheduler runs a due job before that
Tick ==
    /\ now < MaxTime
    /\ ~InitJobDue
    /\ ~LoopJobDue
    /\ now' = now + 1
    /\ UNCHANGED <<interval, last_ticket_time, ticketFile, tkPc, first_run_done,
                   initPending, initDue, loopNext, restarts, lastSend, prevSend,
                   sentSinceLoad, sendResult>>
    /\ UNCHANGED <<ordVars, msgVars, parseVars, raiseVars, jobVars, gwVars>>

\* the date job fires: _check_auto_ticket_with_init up to the first await of
\* _check_auto_ticket_loop (get_unconfirmed_orders)
FireInitJob ==
    /\ InitJobDue
    /\ initPending' = FALSE
    /\ IF first_run_done
       THEN UNCHANGED <<tkPc, first_run_done>>
       ELSE /\ first_run_done' = TRUE
            /\ tkPc' = [tkPc EXCEPT !["auto_ticket_init"] = "fetching"]
    /\ UNCHANGED <<now, interval, last_ticket_time, ticketFile, initDue, loopNext,
                   restarts, lastSend, prevSend, sentSinceLoad, sendResult>>
    /\ UNCHANGED <<ordVars, msgVars, parseVars, raiseVars, jobVars, gwVars>>

\* the interval job fires: the scheduler skips the run when the previous
\* instance of the same job is still running (max_instances is 1)
FireLoopJob ==
    /\ LoopJobDue
    /\ loopNext' = loopNext + interval
    /\ tkPc' = IF tkPc["auto_ticket"] = "idle"
               THEN [tkPc EXCEPT !["auto_ticket"] = "fetching"]
               ELSE tkPc
    /\ UNCHANGED <<now, interval, last_ticket_time, ticketFile, first_run_done,
                   initPending, initDue, restarts, lastSend, prevSend, sentSinceLoad, sendResult>>
    /\ UNCHANGED <<ordVars, msgVars, parseVars, raiseVars, jobVars, gwVars>>

\* get_unconfirmed_orders returns (an empty list also when the gateway
\* failed); with orders the handler runs on to can_send_ticket and, when the
\* interval has passed, to the POST of send_ticket
FetchDone(j, unconfirmed) ==
    /\ tkPc[j] = "fetching"
    /\ tkPc' = [tkPc EXCEPT ![j] =
                  IF ~unconfirmed THEN "idle"
                  ELSE IF ~CanSendTicket(last_ticket_time, now, interval) THEN "idle"
                  ELSE "posting"]
    /\ UNCHANGED <<now, interval, last_ticket_time, ticketFile, first_run_done,
                   initPending, initDue, loopNext, restarts, lastSend, prevSend,
                   sentSinceLoad, sendResult>>
    /\ UNCHANGED <<ordVars, msgVars, parseVars, raiseVars, jobVars, gwVars>>

\* the POST answers with status 200: the time is recorded and saved, then
\* the handler awaits the notification of the admins
PostSucceeded(j, saved) ==
    /\ tkPc[j] = "posting"
    /\ last_ticket_time' = now
    /\ ticketFile' = SaveLastTicketTime(ticketFile, now, saved)
    /\ prevSend' = lastSend
    /\ lastSend' = now
    /\ sentSinceLoad' = TRUE
    /\ sendResult' = [sendResult EXCEPT ![j] = "success"]
    /\ tkPc' = [tkPc EXCEPT ![j] = "notifying"]
    /\ UNCHANGED <<now, interval, first_run_done, initPending, initDue, loopNext,
                   restarts>>
    /\ UNCHANGED <<ordVars, msgVars, parseVars, raiseVars, jobVars, gwVars>>

\* a failed send that records the time of the attempt all the same
PostFailed_TimeRecorded(j) ==
    /\ tkPc[j] = "posting"
    /\ tkPc' = [tkPc EXCEPT ![j] = "notifying"]
    /\ sendResult' = [sendResult EXCEPT ![j] = "failure"]
    /\ last_ticket_time' = now
    /\ ticketFile' = SaveLastTicketTime(ticketFile, now, "saved")
    /\ UNCHANGED <<now, interval, first_run_done,
                   initPending, initDue, loopNext, restarts, lastSend, prevSend,
                   sentSinceLoad>>
    /\ UNCHANGED <<ordVars, msgVars, parseVars, raiseVars, jobVars, gwVars>>

\* send_ticket returns (False, ...): the POST answers with another status
\* than 200, times out or the connection fails, or send_ticket returns
\* before the POST because the session cookie or the list of orders is empty
PostFailed(j) ==
    /\ tkPc[j] = "posting"
    /\ tkPc' = [tkPc EXCEPT ![j] = "notifying"]
    /\ sendResult' = [sendResult EXCEPT ![j] = "failure"]
    /\ UNCHANGED <<now, interval, last_ticket_time, ticketFile, first_run_done,
                   initPending, initDue, loopNext, restarts, lastSend, prevSend,
                   sentSinceLoad>>
    /\ UNCHANGED <<ordVars, msgVars, parseVars, raiseVars, jobVars, gwVars>>

\* notify_all_admins returns or raises (the handler catches): the job ends,
\* and with it the handler's use of what send_ticket returned
NotifyDone(j) ==
    /\ tkPc[j] = "notifying"
    /\ tkPc' = [tkPc EXCEPT ![j] = "idle"]
    /\ sendResult' = [sendResult EXCEPT ![j] = "none"]
    /\ UNCHANGED <<now, interval, last_ticket_time, ticketFile, first_run_done,
                   initPending, initDue, loopNext, restarts, lastSend, prevSend,
                   sentSinceLoad>>
    /\ UNCHANGED <<ordVars, msgVars, parseVars, raiseVars, jobVars, gwVars>>

\* the process stops and is started again: running jobs are gone, the
\* service is constructed from the cache file
Restart ==
    /\ restarts < MaxRestarts
    /\ restarts' = restarts + 1
    /\ Started(now, ticketFile, interval)
    /\ UNCHANGED <<now, interval, ticketFile, lastSend, prevSend>>
    /\ UNCHANGED <<ordVars, msgVars, parseVars, raiseVars, jobVars, gwVars>>

NextTicket ==
    \/ Tick
    \/ FireInitJob
    \/ FireLoopJob
    \/ \E j \in TicketJobs, unconfirmed \in BOOLEAN : FetchDone(j, unconfirmed)
    \/ \E j \in TicketJobs, saved \in SaveOutcomes : PostSucceeded(j, saved)
    \/ \E j \in TicketJobs : PostFailed(j)
    \/ \E j \in TicketJobs : NotifyDone(j)
    \/ Restart

-----------------------------------------------------------------------------
(* Wait-time parsing: AutoRaiseService._parse_wait_time.
   A lower-cased message is a list of items.  An item is a word, or a
   quantity: a number directly followed by a word.  A number is its
   whole part and the digits after its decimal point, if any.  Cyrillic
   words are written in Latin letters: chasa, minut, sekund, podozhdite,
   zachekayte, cherez; ru_m, ru_s and ru_min are the Cyrillic
   abbreviations of minute, second and minute. *)

NotParsed == 0 - 1

\* 1 hour = 3600 s, 1 minute = 60 s, and the default wait
SecondsPerHour == 3600
SecondsPerMinute == 60
DefaultWait == 3600

Whole(n) == [whole |-> n, frac |-> <<>>]
Decimal(n, d) == [whole |-> n, frac |-> <<d>>]

Numbers == {Whole(0), Whole(2), Whole(30), Whole(45), Decimal(4, 1)}

HourWords == {"chasa", "hours"}
MinuteWords == {"minut", "minutes", "ru_m"}
SecondWords == {"sekund", "seconds"}

\* "ru_min" is a usual abbreviation that no pattern matches
UnitWords == HourWords \cup MinuteWords \cup SecondWords \cup {"ru_min"}

\* words that open a throttle message
LeadWords == {"podozhdite", "wait", "cherez"}

Quantity(n, w) == [kind |-> "quantity", num |-> n, word |-> w]
Word(w) == [kind |-> "word", num |-> Whole(0), word |-> w]

\* the patterns of each unit, in the order the code tries them; a pattern is
\* the text that must follow the number, "\b" marking a required word end
hours_patterns == <<"chas[aov]?", "hour[s]?", "hr[s]?", "h\\b">>
minutes_patterns == <<"minut[ya]?", "minute[s]?", "min[s]?", "ru_m\\b">>
seconds_patterns == <<"sekund[ya]?", "second[s]?", "sec[s]?", "ru_s\\b">>

\* the words of the vocabulary each pattern matches at their start
PatternMatches(pattern, w) ==
    CASE pattern = "chas[aov]?"   -> w = "chasa"
      [] pattern = "hour[s]?"    -> w = "hours"
      [] pattern = "hr[s]?"      -> FALSE
      [] pattern = "h\\b"        -> FALSE
      [] pattern = "minut[ya]?"  -> w = "minut"
      [] pattern = "minute[s]?"  -> w = "minutes"
      [] pattern = "min[s]?"     -> w = "minutes"
      [] pattern = "ru_m\\b"     -> w = "ru_m"
      [] pattern = "sekund[ya]?" -> w = "sekund"
      [] pattern = "second[s]?"  -> w = "seconds"
      [] pattern = "sec[s]?"     -> w = "seconds"
      [] pattern = "ru_s\\b"     -> FALSE

\* re.search(pattern, message_lower): the leftmost quantity the pattern
\* matches, 0 if there is none
RECURSIVE SearchFrom(_, _, _)
SearchFrom(pattern, msg, i) ==
    IF i > Len(msg) THEN 0
    ELSE IF msg[i].kind = "quantity" /\ PatternMatches(pattern, msg[i].word) THEN i
    ELSE SearchFrom(pattern, msg, i + 1)

\* for pattern in patterns: match = re.search(...); if match: ... break
RECURSIVE FirstMatch(_, _, _)
FirstMatch(patterns, msg, k) ==
    IF k > Len(patterns) THEN 0
    ELSE LET i == SearchFrom(patterns[k], msg, 1)
         IN IF i # 0 THEN i ELSE FirstMatch(patterns, msg, k + 1)

\* the hour values whose product with 3600.0 is a double just below the
\* exact product: int(4.1 * 3600) is 14759
BelowExact == {Decimal(4, 1)}

\* int(float(match.group(1)) * 3600) for group (\d+(?:\.\d+)?)
HoursToSeconds(n) ==
    LET tenths == n.whole * 10 + (IF n.frac = <<>> THEN 0 ELSE n.frac[1])
        exact == (tenths * SecondsPerHour) \div 10
    IN IF n \in BelowExact THEN exact - 1 ELSE exact

\* int(match.group(1)) for group (\d+): the digits right before the unit,
\* which are the digits after the point when the number has one
LastDigits(n) == IF n.frac = <<>> THEN n.whole ELSE n.frac[1]

\* any(keyword in message_lower for keyword in ["podozhdite", "wait", "zachekayte"])
HasWaitWord(msg) ==
    \E i \in 1..Len(msg) : msg[i].word \in {"podozhdite", "wait", "zachekayte"}

\* _parse_wait_time
parse_wait_time(msg) ==
    LET h == FirstMatch(hours_patterns, msg, 1)
        m == FirstMatch(minutes_patterns, msg, 1)
        s == FirstMatch(seconds_patterns, msg, 1)
        total_seconds ==
            (IF h # 0 THEN HoursToSeconds(msg[h].num) ELSE 0)
            + (IF m # 0 THEN LastDigits(msg[m].num) * SecondsPerMinute ELSE 0)
            + (IF s # 0 THEN LastDigits(msg[s].num) ELSE 0)
    IN IF total_seconds > 0 THEN total_seconds
       ELSE IF HasWaitWord(msg) THEN DefaultWait
       ELSE 0

\* the messages of the model: an optional lead word, then up to
\* MaxQuantities quantities
Quantities == {Quantity(n, w) : n \in Numbers, w \in UnitWords}

\* the lists of at most k quantities
QuantityLists(k) == UNION {[1..n -> Quantities] : n \in 0..k}

Leads == {<<>>} \cup {<<Word(w)>> : w \in LeadWords}

ErrorMessages == {lead \o tail : lead \in Leads, tail \in QuantityLists(MaxQuantities)}

InitParse == message \in ErrorMessages /\ wait_seconds = NotParsed

\* no bump has been answered with an error
InitParseIdle == message = <<>> /\ wait_seconds = NotParsed

\* wait_time = self._parse_wait_time(error_msg)
ParseWaitTime ==
    /\ wait_seconds = NotParsed
    /\ wait_seconds' = parse_wait_time(message)
    /\ UNCHANGED message
    /\ UNCHANGED <<ordVars, msgVars, tkVars, raiseVars, jobVars, gwVars>>

NextParse == ParseWaitTime

-----------------------------------------------------------------------------
(* Auto-raise: AutoRaiseService.  The loop _raise_loop is one task of the
   event loop; a step below is the code between two awaits of the task, and
   the clock moves only while the task sleeps. *)

Games == {1, 2}

\* the clock when the service is started
StartTime == 100000

NotPlanned == 0

\* the default of AUTO_BUMP_INTERVAL
DefaultBumpInterval == 3600

\* the values of AUTO_BUMP_INTERVAL of the model
BumpIntervals == {DefaultBumpInterval}

\* half_hour and tolerance of _optimize_next_call
HalfHour == 1800
Tolerance == 900

\* sorted(next_times)[0]
Earliest(next_times) == CHOOSE x \in next_times : \A y \in next_times : x <= y

\* a rounding of the wait to the multiple of half an hour below it
RoundedWait_Down(time_to_earliest) == (time_to_earliest \div HalfHour) * HalfHour

\* rounded = ((time_to_earliest + half_hour - 1) // half_hour) * half_hour
RoundedWait(time_to_earliest) ==
    ((time_to_earliest + HalfHour - 1) \div HalfHour) * HalfHour

\* _optimize_next_call rounds the wait: the earliest time is half an hour
\* or more away
IsRounded(next_times, cur) == Earliest(next_times) - cur >= HalfHour

\* _optimize_next_call for a list that is not empty (the caller checks that)
optimize_next_call(next_times, cur) ==
    LET earliest == Earliest(next_times)
        time_to_earliest == earliest - cur
    IN IF time_to_earliest < HalfHour THEN earliest
       ELSE cur + RoundedWait(time_to_earliest)

\* the waits, from the current time, of the candidates _optimize_next_call is given
CandidateWaits == {1, 70, 1799, 1800, 1801, 1900, 3600, 3601, 5400}

\* the lists of at most k candidates, as sets of times
CandidateTimes(cur, k) ==
    {T \in SUBSET {cur + w : w \in CandidateWaits} : T # {} /\ Cardinality(T) <= k}

NoAttempt ==
    [game |-> 0, outcome |-> "none", start |-> 0, at |-> 0, wait |-> 0, returned |-> 0]

NoRun ==
    [start |-> 0, ended |-> "none", bumped |-> {}, skipped |-> {}, wake |-> 0,
     failures |-> 0, woken_by |-> "none", returned_at |-> 0]

\* AutoRaiseService() constructed and start() called at StartTime with the
\* given configuration: the task of _raise_loop is created
InitRaiseService(enabled, ivl) ==
    /\ clock = StartTime
    /\ bumpEnabled = enabled
    /\ bump_interval = ivl
    /\ raise_time = [g \in Games |-> 0]
    /\ raisePc = "created"
    /\ stop_called = FALSE
    /\ current_time = 0
    /\ all_next_times = {}
    /\ todo = {}
    /\ game = 0
    /\ next_time = NotPlanned
    /\ lastAttempt = NoAttempt
    /\ runs = 0
    /\ lastRun = NoRun
    /\ rounded_wake = 0
    /\ force_check = FALSE
    /\ toggles = 0
    /\ raised_time = [g \in Games |-> 0]
    /\ end_time = 0
    /\ lastWake = "none"

InitRaiseIdle == InitRaiseService(FALSE, DefaultBumpInterval)

InitRaise == \E enabled \in BOOLEAN, ivl \in BumpIntervals : InitRaiseService(enabled, ivl)

\* _raise_lots has collected the times of its games and calls _optimize_next_call
InitOptimize ==
    /\ clock \in {StartTime, StartTime + 1}
    /\ bumpEnabled = TRUE
    /\ bump_interval = DefaultBumpInterval
    /\ raise_time = [g \in Games |-> 0]
    /\ raisePc = "optimize"
    /\ stop_called = FALSE
    /\ current_time = StartTime
    /\ all_next_times \in CandidateTimes(StartTime, MaxCandidates)
    /\ todo = {}
    /\ game = 0
    /\ next_time = NotPlanned
    /\ lastAttempt = NoAttempt
    /\ runs = 1
    /\ lastRun = NoRun
    /\ rounded_wake = 0
    /\ force_check = FALSE
    /\ toggles = 0
    /\ raised_time = [g \in Games |-> 0]
    /\ end_time = 0
    /\ lastWake = "none"

\* next_call = self._optimize_next_call(all_next_times, current_time); return next_call
OptimizeNextCall ==
    /\ raisePc = "optimize"
    /\ next_time' = optimize_next_call(all_next_times, current_time)
    /\ rounded_wake' = IF IsRounded(all_next_times, current_time)
                       THEN optimize_next_call(all_next_times, current_time)
                       ELSE rounded_wake
    /\ raisePc' = "returned"
    /\ UNCHANGED <<clock, bumpEnabled, bump_interval, raise_time, stop_called,
                   current_time, all_next_times, todo, game, lastAttempt, runs, lastRun>>
    /\ UNCHANGED <<force_check, toggles, raised_time, end_time, lastWake>>
    /\ UNCHANGED <<ordVars, msgVars, tkVars, parseVars, jobVars, gwVars>>

NextOptimize == OptimizeNextCall

\* ---- the loop _raise_loop ----

\* the delays of the code: the waits of _raise_loop, the retry times of
\* _raise_lots and _raise_game_lots, the pauses of _raise_game_lots
DisabledWaitTimeout == 10
SleepChunk == 600
RetryNoUser == 300
RetryNoCategories == 600
RetryAfterError == 600
BumpPause == 1
RetryNoLots == 300
RetryAfterBumpError == 60
ErrorPause == 10
ServerErrorPause == 60

\* what get_user_categories may return
GameCategories == {{}, Games}

\* the replies to a bump that hold a throttle keyword: 30 minutes, 45
\* minutes, and "cherez" without a duration
ThrottleReplies ==
    { <<Word("podozhdite"), Quantity(Whole(30), "minut")>>,
      <<Word("podozhdite"), Quantity(Whole(45), "minut")>>,
      <<Word("cherez")>> }

\* the positions of the task inside an invocation of _raise_lots
RunPcs == {"user_info", "offers", "categories", "bump_pause", "bumping", "notify",
           "error_pause", "server_error_pause"}

\* the positions at which the task is suspended in an await
AwaitPcs == RunPcs \cup {"disabled_wait", "sleeping"}

\* a loop that takes every game of the profile for due
NotYetDue_Never(rt, g, cur) == FALSE

\* a loop that holds a game back until the next full half hour after its
\* stored time
NotYetDue_UntilHalfHour(rt, g, cur) ==
    rt[g] # 0 /\ ((rt[g] + HalfHour - 1) \div HalfHour) * HalfHour > cur

\* if saved_time and saved_time > current_time: the game is not bumped
NotYetDue(rt, g, cur) == rt[g] # 0 /\ rt[g] > cur

\* _raise_lots returns nt at time t: the loop computes the delay and sleeps,
\* or goes on without sleeping when the delay is not positive
Return(nt, t, how, run) ==
    /\ next_time' = nt
    /\ lastRun' = [run EXCEPT !.ended = how, !.returned_at = t]
    /\ raisePc' = IF nt - t <= 0 THEN "top" ELSE "sleeping"
    /\ end_time' = IF nt - t <= 0 THEN 0 ELSE t + Min(nt - t, SleepChunk)
    /\ todo' = {}
    /\ game' = 0

\* the rest of the loop over game_categories at time t, with the times T
\* collected so far: games that are not yet due are passed over, the first
\* due game is bumped after a pause; after the last game the next call is
\* planned by _optimize_next_call
Continue(T, rest, rt, t, run) ==
    LET dueGames == {g \in rest : ~NotYetDue(rt, g, current_time)}
    IN IF dueGames # {}
       THEN LET d == Earliest(dueGames)
                passed == {g \in rest : g < d}
            IN /\ all_next_times' = T \cup {rt[g] : g \in passed}
               /\ todo' = rest \ (passed \cup {d})
               /\ game' = d
               /\ raisePc' = "bump_pause"
               /\ lastRun' = [run EXCEPT !.skipped = @ \cup passed]
               /\ UNCHANGED <<next_time, rounded_wake, end_time>>
       ELSE LET times == T \cup {rt[g] : g \in rest}
                nt == IF times # {} THEN optimize_next_call(times, current_time)
                      ELSE current_time + bump_interval
            IN /\ all_next_times' = times
               /\ rounded_wake' = IF times # {} /\ IsRounded(times, current_time)
                                  THEN nt ELSE rounded_wake
               /\ Return(nt, t, "returned", [run EXCEPT !.skipped = @ \cup rest])

\* asyncio.create_task(self._raise_loop()): the task runs for the first time
TaskStarts ==
    /\ raisePc = "created"
    /\ raisePc' = "top"
    /\ UNCHANGED <<clock, bumpEnabled, bump_interval, raise_time, stop_called,
                   current_time, all_next_times, todo, game, next_time, lastAttempt,
                   runs, lastRun, rounded_wake>>
    /\ UNCHANGED <<force_check, toggles, raised_time, end_time, lastWake>>
    /\ UNCHANGED <<ordVars, msgVars, tkVars, parseVars, jobVars, gwVars>>

\* if not AUTO_BUMP_ENABLED(): await wait_for(self._force_check.wait(), timeout=10)
WaitWhileDisabled ==
    /\ raisePc = "top"
    /\ ~bumpEnabled
    /\ runs < MaxRuns
    /\ runs' = runs + 1
    /\ raisePc' = "disabled_wait"
    /\ UNCHANGED <<clock, bumpEnabled, bump_interval, raise_time, stop_called,
                   current_time, all_next_times, todo, game, next_time, lastAttempt,
                   lastRun, rounded_wake>>
    /\ UNCHANGED <<force_check, toggles, raised_time, end_time, lastWake>>
    /\ UNCHANGED <<ordVars, msgVars, tkVars, parseVars, jobVars, gwVars>>

\* except asyncio.TimeoutError: pass; continue
DisabledWaitTimesOut ==
    /\ raisePc = "disabled_wait"
    /\ ~force_check
    /\ clock' = clock + DisabledWaitTimeout
    /\ raisePc' = "top"
    /\ lastWake' = "timer"
    /\ UNCHANGED <<bumpEnabled, bump_interval, raise_time, stop_called,
                   current_time, all_next_times, todo, game, next_time, lastAttempt,
                   runs, lastRun, rounded_wake>>
    /\ UNCHANGED <<force_check, toggles, raised_time, end_time>>
    /\ UNCHANGED <<ordVars, msgVars, tkVars, parseVars, jobVars, gwVars>>

\* next_time = await self._raise_lots(): the invocation starts and awaits
\* get_user_info
BeginRaiseLots ==
    /\ raisePc = "top"
    /\ bumpEnabled
    /\ runs < MaxRuns
    /\ runs' = runs + 1
    /\ current_time' = clock
    /\ all_next_times' = {}
    /\ todo' = {}
    /\ game' = 0
    /\ raisePc' = "user_info"
    /\ lastRun' = [start |-> clock, ended |-> "running", bumped |-> {}, skipped |-> {},
                   wake |-> IF rounded_wake # 0 /\ clock >= rounded_wake
                            THEN rounded_wake ELSE 0,
                   failures |-> lastRun.failures, woken_by |-> lastWake,
                   returned_at |-> 0]
    /\ rounded_wake' = IF clock >= rounded_wake THEN 0 ELSE rounded_wake
    /\ UNCHANGED <<clock, bumpEnabled, bump_interval, raise_time, stop_called,
                   next_time, lastAttempt>>
    /\ UNCHANGED <<force_check, toggles, raised_time, end_time, lastWake>>
    /\ UNCHANGED <<ordVars, msgVars, tkVars, parseVars, jobVars, gwVars>>

\* get_user_info returns: with a user id the invocation awaits
\* get_user_offers, without one it returns current_time + 300
UserInfoDone(has_id) ==
    /\ raisePc = "user_info"
    /\ IF has_id
       THEN /\ raisePc' = "offers"
            /\ UNCHANGED <<next_time, lastRun, todo, game, end_time>>
       ELSE Return(current_time + RetryNoUser, clock, "returned", lastRun)
    /\ UNCHANGED <<clock, bumpEnabled, bump_interval, raise_time, stop_called,
                   current_time, all_next_times, lastAttempt, runs, rounded_wake>>
    /\ UNCHANGED <<force_check, toggles, raised_time, lastWake>>
    /\ UNCHANGED <<ordVars, msgVars, tkVars, parseVars, jobVars, gwVars>>

\* get_user_offers returns: the invocation awaits get_user_categories
OffersDone ==
    /\ raisePc = "offers"
    /\ raisePc' = "categories"
    /\ UNCHANGED <<clock, bumpEnabled, bump_interval, raise_time, stop_called,
                   current_time, all_next_times, todo, game, next_time, lastAttempt,
                   runs, lastRun, rounded_wake>>
    /\ UNCHANGED <<force_check, toggles, raised_time, end_time, lastWake>>
    /\ UNCHANGED <<ordVars, msgVars, tkVars, parseVars, jobVars, gwVars>>

\* get_user_categories returns: without categories the invocation returns
\* current_time + 600, with categories the loop over the games starts
CategoriesDone(game_categories) ==
    /\ raisePc = "categories"
    /\ IF game_categories = {}
       THEN /\ Return(current_time + RetryNoCategories, clock, "returned", lastRun)
            /\ UNCHANGED <<all_next_times, rounded_wake>>
       ELSE Continue({}, game_categories, raise_time, clock, lastRun)
    /\ UNCHANGED <<clock, bumpEnabled, bump_interval, raise_time, stop_called,
                   current_time, lastAttempt, runs>>
    /\ UNCHANGED <<force_check, toggles, raised_time, lastWake>>
    /\ UNCHANGED <<ordVars, msgVars, tkVars, parseVars, jobVars, gwVars>>

\* a failure of one of the three calls that ends the loop
RemoteCallFails_EndsLoop ==
    /\ raisePc \in {"user_info", "offers", "categories"}
    /\ raisePc' = "ended"
    /\ lastRun' = [lastRun EXCEPT !.ended = "error", !.failures = @ + 1]
    /\ UNCHANGED <<clock, bumpEnabled, bump_interval, raise_time, stop_called,
                   current_time, all_next_times, todo, game, next_time, lastAttempt,
                   runs, rounded_wake>>
    /\ UNCHANGED <<force_check, toggles, raised_time, end_time, lastWake>>
    /\ UNCHANGED <<ordVars, msgVars, tkVars, parseVars, jobVars, gwVars>>

\* get_user_info, get_user_offers or get_user_categories raises:
\* except Exception of _raise_lots, return current_time + 600
RemoteCallFails ==
    /\ raisePc \in {"user_info", "offers", "categories"}
    /\ Return(current_time + RetryAfterError, clock, "error",
              [lastRun EXCEPT !.failures = @ + 1])
    /\ UNCHANGED <<clock, bumpEnabled, bump_interval, raise_time, stop_called,
                   current_time, all_next_times, lastAttempt, runs, rounded_wake>>
    /\ UNCHANGED <<force_check, toggles, raised_time, lastWake>>
    /\ UNCHANGED <<ordVars, msgVars, tkVars, parseVars, jobVars, gwVars>>

\* await asyncio.sleep(1) of _raise_game_lots ends: bump_offers is awaited
BumpPauseDone ==
    /\ raisePc = "bump_pause"
    /\ clock' = clock + BumpPause
    /\ raisePc' = "bumping"
    /\ lastRun' = [lastRun EXCEPT !.bumped = @ \cup {game}]
    /\ UNCHANGED <<bumpEnabled, bump_interval, raise_time, stop_called,
                   current_time, all_next_times, todo, game, next_time, lastAttempt,
                   runs, rounded_wake>>
    /\ UNCHANGED <<force_check, toggles, raised_time, end_time, lastWake>>
    /\ UNCHANGED <<ordVars, msgVars, tkVars, parseVars, jobVars, gwVars>>

Attempt(outcome, wait, returned) ==
    [game |-> game, outcome |-> outcome, start |-> current_time, at |-> clock,
     wait |-> wait, returned |-> returned]

\* the bump succeeded: raised_time and raise_time are set from the clock,
\* then the notification is awaited
BumpSucceeded ==
    /\ raisePc = "bumping"
    /\ raised_time' = [raised_time EXCEPT ![game] = clock]
    /\ raise_time' = [raise_time EXCEPT ![game] = clock + bump_interval]
    /\ lastAttempt' = Attempt("success", 0, clock + bump_interval)
    /\ all_next_times' = all_next_times \cup {clock + bump_interval}
    /\ raisePc' = "notify"
    /\ UNCHANGED <<clock, bumpEnabled, bump_interval, stop_called, current_time,
                   todo, game, next_time, runs, lastRun, rounded_wake>>
    /\ UNCHANGED <<force_check, toggles, end_time, lastWake>>
    /\ UNCHANGED <<ordVars, msgVars, tkVars, parseVars, jobVars, gwVars>>

\* notify_lots_raised returns or raises (caught): return next_time
NotifyRaisedDone ==
    /\ raisePc = "notify"
    /\ Continue(all_next_times, todo, raise_time, clock, lastRun)
    /\ UNCHANGED <<clock, bumpEnabled, bump_interval, raise_time, stop_called,
                   current_time, lastAttempt, runs>>
    /\ UNCHANGED <<force_check, toggles, raised_time, lastWake>>
    /\ UNCHANGED <<ordVars, msgVars, tkVars, parseVars, jobVars, gwVars>>

\* the reply says that there are no lots: return current_time + 300
BumpNoLots ==
    /\ raisePc = "bumping"
    /\ lastAttempt' = Attempt("no_lots", 0, current_time + RetryNoLots)
    /\ Continue(all_next_times \cup {current_time + RetryNoLots}, todo, raise_time,
                clock, lastRun)
    /\ UNCHANGED <<clock, bumpEnabled, bump_interval, raise_time, stop_called,
                   current_time, runs>>
    /\ UNCHANGED <<force_check, toggles, raised_time, lastWake>>
    /\ UNCHANGED <<ordVars, msgVars, tkVars, parseVars, jobVars, gwVars>>

\* the reply holds a throttle keyword: with a parsed wait the time of the
\* game is set from current_time, without one the task pauses 10 s
BumpThrottled(reply) ==
    /\ raisePc = "bumping"
    /\ message' = reply
    /\ wait_seconds' = parse_wait_time(reply)
    /\ IF parse_wait_time(reply) # 0
       THEN LET nt == current_time + parse_wait_time(reply)
                rt == [raise_time EXCEPT ![game] = nt]
            IN /\ raise_time' = rt
               /\ lastAttempt' = Attempt("throttled", parse_wait_time(reply), nt)
               /\ Continue(all_next_times \cup {nt}, todo, rt, clock, lastRun)
       ELSE /\ raisePc' = "error_pause"
            /\ lastAttempt' = Attempt("throttled", 0, current_time + RetryAfterBumpError)
            /\ UNCHANGED <<raise_time, all_next_times, todo, game, next_time, lastRun,
                           rounded_wake, end_time>>
    /\ UNCHANGED <<clock, bumpEnabled, bump_interval, stop_called, current_time, runs>>
    /\ UNCHANGED <<force_check, toggles, raised_time, lastWake>>
    /\ UNCHANGED <<ordVars, msgVars, tkVars, jobVars, gwVars>>

\* the reply holds 429, 403 or 503: the task pauses 60 s
BumpServerError ==
    /\ raisePc = "bumping"
    /\ raisePc' = "server_error_pause"
    /\ lastAttempt' = Attempt("server_error", 0, current_time + RetryAfterBumpError)
    /\ UNCHANGED <<clock, bumpEnabled, bump_interval, raise_time, stop_called,
                   current_time, all_next_times, todo, game, next_time, runs, lastRun,
                   rounded_wake>>
    /\ UNCHANGED <<force_check, toggles, raised_time, end_time, lastWake>>
    /\ UNCHANGED <<ordVars, msgVars, tkVars, parseVars, jobVars, gwVars>>

\* any other failure of the bump: the task pauses 10 s
BumpOtherError ==
    /\ raisePc = "bumping"
    /\ raisePc' = "error_pause"
    /\ lastAttempt' = Attempt("other_error", 0, current_time + RetryAfterBumpError)
    /\ UNCHANGED <<clock, bumpEnabled, bump_interval, raise_time, stop_called,
                   current_time, all_next_times, todo, game, next_time, runs, lastRun,
                   rounded_wake>>
    /\ UNCHANGED <<force_check, toggles, raised_time, end_time, lastWake>>
    /\ UNCHANGED <<ordVars, msgVars, tkVars, parseVars, jobVars, gwVars>>

\* the pause after a failed bump ends: return current_time + 60
ErrorPauseDone ==
    /\ raisePc \in {"error_pause", "server_error_pause"}
    /\ LET t == clock + (IF raisePc = "error_pause" THEN ErrorPause ELSE ServerErrorPause)
       IN /\ clock' = t
          /\ Continue(all_next_times \cup {current_time + RetryAfterBumpError}, todo,
                      raise_time, t, lastRun)
    /\ UNCHANGED <<bumpEnabled, bump_interval, raise_time, stop_called,
                   current_time, lastAttempt, runs>>
    /\ UNCHANGED <<force_check, toggles, raised_time, lastWake>>
    /\ UNCHANGED <<ordVars, msgVars, tkVars, parseVars, jobVars, gwVars>>

\* a sleep that goes on to end_time whatever the event says
SleepDone_IgnoresEvent ==
    /\ raisePc = "sleeping"
    /\ clock' = end_time
    /\ end_time' = 0
    /\ raisePc' = "top"
    /\ lastWake' = "timer"
    /\ UNCHANGED <<bumpEnabled, bump_interval, raise_time, stop_called,
                   current_time, all_next_times, todo, game, next_time, lastAttempt,
                   runs, lastRun, rounded_wake, raised_time, toggles, force_check>>
    /\ UNCHANGED <<ordVars, msgVars, tkVars, parseVars, jobVars, gwVars>>

\* a sleep of the whole delay in one stretch
SleepDone_WholeDelay ==
    /\ raisePc = "sleeping"
    /\ ~force_check
    /\ clock' = next_time
    /\ end_time' = 0
    /\ raisePc' = "top"
    /\ lastWake' = "timer"
    /\ UNCHANGED <<bumpEnabled, bump_interval, raise_time, stop_called,
                   current_time, all_next_times, todo, game, next_time, lastAttempt,
                   runs, lastRun, rounded_wake, raised_time, toggles, force_check>>
    /\ UNCHANGED <<ordVars, msgVars, tkVars, parseVars, jobVars, gwVars>>

\* _sleep_with_countdown(delay): the event stays clear until end_time, the
\* end of a step of at most 600 s; then the task returns to the loop
SleepDone ==
    /\ raisePc = "sleeping"
    /\ ~force_check
    /\ clock' = end_time
    /\ end_time' = 0
    /\ raisePc' = "top"
    /\ lastWake' = "timer"
    /\ UNCHANGED <<bumpEnabled, bump_interval, raise_time, stop_called,
                   current_time, all_next_times, todo, game, next_time, lastAttempt,
                   runs, lastRun, rounded_wake>>
    /\ UNCHANGED <<force_check, toggles, raised_time>>
    /\ UNCHANGED <<ordVars, msgVars, tkVars, parseVars, jobVars, gwVars>>

\* a stop() whose cancellation the task survives
Stop_LoopGoesOn ==
    /\ ~stop_called
    /\ raisePc \in AwaitPcs \cup {"created"}
    /\ stop_called' = TRUE
    /\ UNCHANGED <<clock, bumpEnabled, bump_interval, raise_time, current_time,
                   all_next_times, todo, game, next_time, lastAttempt, runs, rounded_wake,
                   raisePc, lastRun>>
    /\ UNCHANGED <<force_check, toggles, raised_time, end_time, lastWake>>
    /\ UNCHANGED <<ordVars, msgVars, tkVars, parseVars, jobVars, gwVars>>

\* stop(): the task is cancelled where it is suspended; CancelledError is no
\* Exception, so it passes the handlers of _raise_game_lots and _raise_lots
\* and ends the loop
Stop ==
    /\ ~stop_called
    /\ raisePc \in AwaitPcs \cup {"created"}
    /\ stop_called' = TRUE
    /\ raisePc' = "ended"
    /\ lastRun' = IF raisePc \in RunPcs THEN [lastRun EXCEPT !.ended = "aborted"]
                  ELSE lastRun
    /\ UNCHANGED <<clock, bumpEnabled, bump_interval, raise_time, current_time,
                   all_next_times, todo, game, next_time, lastAttempt, runs, rounded_wake>>
    /\ UNCHANGED <<force_check, toggles, raised_time, end_time, lastWake>>
    /\ UNCHANGED <<ordVars, msgVars, tkVars, parseVars, jobVars, gwVars>>

\* _sleep_with_countdown sees the event at its next look, at most a second
\* after it was set: self._force_check.clear(); return
SleepInterrupted ==
    /\ raisePc = "sleeping"
    /\ force_check
    /\ force_check' = FALSE
    /\ end_time' = 0
    /\ raisePc' = "top"
    /\ lastWake' = "sleep_interrupted"
    /\ UNCHANGED <<clock, bumpEnabled, bump_interval, raise_time, stop_called,
                   current_time, all_next_times, todo, game, next_time, lastAttempt,
                   runs, lastRun, rounded_wake, raised_time, toggles>>
    /\ UNCHANGED <<ordVars, msgVars, tkVars, parseVars, jobVars, gwVars>>

\* a wait that the event does not end
DisabledWaitTriggered_EventIgnored ==
    /\ raisePc = "disabled_wait"
    /\ force_check
    /\ UNCHANGED vars

\* wait_for(self._force_check.wait(), timeout=10) returns because the event
\* is set: self._force_check.clear(), and the loop goes on from its top
DisabledWaitTriggered ==
    /\ raisePc = "disabled_wait"
    /\ force_check
    /\ force_check' = FALSE
    /\ raisePc' = "top"
    /\ lastWake' = "wait_interrupted"
    /\ UNCHANGED <<clock, bumpEnabled, bump_interval, raise_time, stop_called,
                   current_time, all_next_times, todo, game, next_time, lastAttempt,
                   runs, lastRun, rounded_wake, raised_time, toggles, end_time>>
    /\ UNCHANGED <<ordVars, msgVars, tkVars, parseVars, jobVars, gwVars>>

\* how long a sleep of the task has lasted when the operator's callback runs
ElapsedInSleep == {0, 300}

\* a switch that forgets the timers of the games
SwitchAutoBump_ResetsTimers(elapsed) ==
    /\ toggles < MaxToggles
    /\ raisePc # "top"
    /\ toggles' = toggles + 1
    /\ bumpEnabled' = ~bumpEnabled
    /\ force_check' = IF ~bumpEnabled THEN TRUE ELSE force_check
    /\ raise_time' = [g \in Games |-> 0]
    /\ raised_time' = [g \in Games |-> 0]
    /\ IF raisePc = "sleeping"
       THEN /\ clock + elapsed < end_time
            /\ clock' = clock + elapsed
       ELSE /\ elapsed = 0
            /\ UNCHANGED clock
    /\ UNCHANGED <<bump_interval, raisePc, stop_called,
                   current_time, all_next_times, todo, game, next_time, lastAttempt,
                   runs, lastRun, rounded_wake, end_time, lastWake>>
    /\ UNCHANGED <<ordVars, msgVars, tkVars, parseVars, jobVars, gwVars>>

\* callback_switch_auto_bump: the setting is inverted and saved; when it is
\* switched on, trigger_immediate_check sets the event.  The timers of the
\* games are not touched.  The callback runs while the task is suspended,
\* elapsed seconds into its sleep when it sleeps.
SwitchAutoBump(elapsed) ==
    /\ toggles < MaxToggles
    /\ raisePc # "top"
    /\ toggles' = toggles + 1
    /\ bumpEnabled' = ~bumpEnabled
    /\ force_check' = IF ~bumpEnabled THEN TRUE ELSE force_check
    /\ IF raisePc = "sleeping"
       THEN /\ clock + elapsed < end_time
            /\ clock' = clock + elapsed
       ELSE /\ elapsed = 0
            /\ UNCHANGED clock
    /\ UNCHANGED <<bump_interval, raise_time, raisePc, stop_called,
                   current_time, all_next_times, todo, game, next_time, lastAttempt,
                   runs, lastRun, rounded_wake, raised_time, end_time, lastWake>>
    /\ UNCHANGED <<ordVars, msgVars, tkVars, parseVars, jobVars, gwVars>>

NextRaise ==
    \/ TaskStarts
    \/ WaitWhileDisabled
    \/ DisabledWaitTimesOut
    \/ BeginRaiseLots
    \/ \E has_id \in BOOLEAN : UserInfoDone(has_id)
    \/ OffersDone
    \/ \E game_categories \in GameCategories : CategoriesDone(game_categories)
    \/ RemoteCallFails
    \/ BumpPauseDone
    \/ BumpSucceeded
    \/ NotifyRaisedDone
    \/ BumpNoLots
    \/ \E reply \in ThrottleReplies : BumpThrottled(reply)
    \/ BumpServerError
    \/ BumpOtherError
    \/ ErrorPauseDone
    \/ SleepDone
    \/ Stop

\* the loop with an operator who switches auto-bump off and on, and a
\* marketplace that returns the profile with both games
NextRaiseSwitched ==
    \/ TaskStarts
    \/ WaitWhileDisabled
    \/ DisabledWaitTimesOut
    \/ DisabledWaitTriggered
    \/ BeginRaiseLots
    \/ UserInfoDone(TRUE)
    \/ OffersDone
    \/ CategoriesDone(Games)
    \/ BumpPauseDone
    \/ BumpSucceeded
    \/ NotifyRaisedDone
    \/ \E reply \in ThrottleReplies : BumpThrottled(reply)
    \/ BumpOtherError
    \/ ErrorPauseDone
    \/ SleepDone
    \/ SleepInterrupted
    \/ \E elapsed \in ElapsedInSleep : SwitchAutoBump(elapsed)
    \/ Stop

\* the loop with a marketplace that returns the profile with both games and
\* answers a bump with success, a wait time or an error
NextRaiseListed ==
    \/ TaskStarts
    \/ WaitWhileDisabled
    \/ DisabledWaitTimesOut
    \/ BeginRaiseLots
    \/ UserInfoDone(TRUE)
    \/ OffersDone
    \/ CategoriesDone(Games)
    \/ BumpPauseDone
    \/ BumpSucceeded
    \/ NotifyRaisedDone
    \/ \E reply \in ThrottleReplies : BumpThrottled(reply)
    \/ BumpOtherError
    \/ ErrorPauseDone
    \/ SleepDone
    \/ Stop

\* the steps of the task of the loop: each is the end of an await
LoopSteps ==
    \/ TaskStarts
    \/ WaitWhileDisabled
    \/ DisabledWaitTimesOut
    \/ DisabledWaitTriggered
    \/ BeginRaiseLots
    \/ UserInfoDone(TRUE)
    \/ OffersDone
    \/ CategoriesDone(Games)
    \/ BumpPauseDone
    \/ BumpSucceeded
    \/ NotifyRaisedDone
    \/ \E reply \in ThrottleReplies : BumpThrottled(reply)
    \/ BumpOtherError
    \/ ErrorPauseDone
    \/ SleepDone
    \/ SleepInterrupted

-----------------------------------------------------------------------------
(* The scheduler of BackgroundTasks and the task of the raise loop.  The
   jobs 'check_messages' and 'check_orders' have the same interval (5 s by
   default), so both triggers are due at the same wake-up of the scheduler.
   Here an invocation of a handler is two steps, its start and its end. *)

Jobs == {"check_messages", "check_orders"}

RaiseLoop == "auto_raise"

\* add_job is called without max_instances: one instance per job
MaxInstances == 1

InitJobsIdle ==
    /\ schedulerRunning = TRUE
    /\ ticks = 0
    /\ running = [h \in Jobs \cup {RaiseLoop} |-> 0]
    /\ invoked = [j \in Jobs |-> 0]
    /\ failed = [j \in Jobs |-> 0]
    /\ skipped = [j \in Jobs |-> 0]

\* a scheduler that starts a due job whatever is running
SchedulerWakes_NoInstanceLimit ==
    /\ schedulerRunning
    /\ ticks < MaxTicks
    /\ ticks' = ticks + 1
    /\ running' = [h \in Jobs \cup {RaiseLoop} |->
                      IF h \in Jobs THEN running[h] + 1 ELSE running[h]]
    /\ invoked' = [j \in Jobs |-> invoked[j] + 1]
    /\ UNCHANGED <<schedulerRunning, failed, skipped>>
    /\ UNCHANGED <<ordVars, msgVars, tkVars, parseVars, raiseVars, gwVars>>

\* the interval of the two jobs has elapsed: the scheduler starts the handler
\* of each job, and skips the run of a job whose instance is still running
SchedulerWakes ==
    /\ schedulerRunning
    /\ ticks < MaxTicks
    /\ ticks' = ticks + 1
    /\ running' = [h \in Jobs \cup {RaiseLoop} |->
                      IF h \in Jobs /\ running[h] < MaxInstances
                      THEN running[h] + 1 ELSE running[h]]
    /\ invoked' = [j \in Jobs |->
                      IF running[j] < MaxInstances THEN invoked[j] + 1 ELSE invoked[j]]
    /\ skipped' = [j \in Jobs |->
                      IF running[j] < MaxInstances THEN skipped[j] ELSE skipped[j] + 1]
    /\ UNCHANGED <<schedulerRunning, failed>>
    /\ UNCHANGED <<ordVars, msgVars, tkVars, parseVars, raiseVars, gwVars>>

\* _check_new_messages_loop / _check_new_orders_loop: the check returns
HandlerReturns(j) ==
    /\ running[j] > 0
    /\ running' = [running EXCEPT ![j] = @ - 1]
    /\ UNCHANGED <<schedulerRunning, ticks, invoked, failed, skipped>>
    /\ UNCHANGED <<ordVars, msgVars, tkVars, parseVars, raiseVars, gwVars>>

\* a handler whose exception stops the scheduler
HandlerFails_StopsScheduler(j) ==
    /\ running[j] > 0
    /\ running' = [running EXCEPT ![j] = @ - 1]
    /\ failed' = [failed EXCEPT ![j] = @ + 1]
    /\ schedulerRunning' = FALSE
    /\ UNCHANGED <<ticks, invoked, skipped>>
    /\ UNCHANGED <<ordVars, msgVars, tkVars, parseVars, raiseVars, gwVars>>

\* the check raises: except Exception of the handler logs the error, and
\* the handler returns
HandlerFails(j) ==
    /\ running[j] > 0
    /\ running' = [running EXCEPT ![j] = @ - 1]
    /\ failed' = [failed EXCEPT ![j] = @ + 1]
    /\ UNCHANGED <<schedulerRunning, ticks, invoked, skipped>>
    /\ UNCHANGED <<ordVars, msgVars, tkVars, parseVars, raiseVars, gwVars>>

\* BackgroundTasks.stop(): self.scheduler.shutdown()
StopScheduler ==
    /\ schedulerRunning
    /\ schedulerRunning' = FALSE
    /\ UNCHANGED <<running, ticks, invoked, failed, skipped>>
    /\ UNCHANGED <<ordVars, msgVars, tkVars, parseVars, raiseVars, gwVars>>

\* _raise_loop: next_time = await self._raise_lots() starts an invocation;
\* the loop is suspended in this await until the invocation ends
LoopInvokes ==
    /\ bumpEnabled
    /\ running[RaiseLoop] = 0
    /\ running' = [running EXCEPT ![RaiseLoop] = 1]
    /\ UNCHANGED <<schedulerRunning, ticks, invoked, failed, skipped>>
    /\ UNCHANGED <<ordVars, msgVars, tkVars, parseVars, raiseVars, gwVars>>

\* the invocation of _raise_lots returns, raises or is cancelled
InvocationEnds ==
    /\ running[RaiseLoop] > 0
    /\ running' = [running EXCEPT ![RaiseLoop] = @ - 1]
    /\ UNCHANGED <<schedulerRunning, ticks, invoked, failed, skipped>>
    /\ UNCHANGED <<ordVars, msgVars, tkVars, parseVars, raiseVars, gwVars>>

NextJobs ==
    \/ SchedulerWakes
    \/ \E j \in Jobs : HandlerReturns(j)
    \/ \E j \in Jobs : HandlerFails(j)
    \/ StopScheduler
    \/ LoopInvokes
    \/ InvocationEnds

-----------------------------------------------------------------------------
(* The gateway: StarvellService, StarAPI and SessionManager.  Code between
   two awaits runs without interruption; every await is a step of its own. *)

svcVars == <<session_error_notified, svcPc, notifications, notFoundErrors, svcStarts>>

reqVars == <<build_id, serverBuild, reqPc, nd_attempt, attempt, url_build, reqResult,
             resets, delays, reqCalls>>

\* ---- the notification of a stale session ----

\* the jobs that call the service
ServiceJobs == {"check_messages", "check_orders", "auto_raise"}

InitService ==
    /\ session_error_notified = FALSE
    /\ svcPc = [j \in ServiceJobs |-> "idle"]
    /\ notifications = 0
    /\ notFoundErrors = 0
    /\ svcStarts = 1

\* a job awaits a call of the api (get_chats, get_messages, get_orders, bump_offers ...)
ServiceCall(j) ==
    /\ svcPc[j] = "idle"
    /\ svcPc' = [svcPc EXCEPT ![j] = "calling"]
    /\ UNCHANGED <<session_error_notified, notifications, notFoundErrors, svcStarts>>
    /\ UNCHANGED <<reqVars, extVars>>
    /\ UNCHANGED <<ordVars, msgVars, tkVars, parseVars, raiseVars, jobVars>>

\* the call returns, or raises something that is not a NotFoundError
ServiceCallEnds(j) ==
    /\ svcPc[j] = "calling"
    /\ svcPc' = [svcPc EXCEPT ![j] = "idle"]
    /\ UNCHANGED <<session_error_notified, notifications, notFoundErrors, svcStarts>>
    /\ UNCHANGED <<reqVars, extVars>>
    /\ UNCHANGED <<ordVars, msgVars, tkVars, parseVars, raiseVars, jobVars>>

\* a notification that does not set the flag
NotifySessionError_FlagNotSet(j) ==
    /\ svcPc[j] = "calling"
    /\ notFoundErrors < MaxNotFound
    /\ notFoundErrors' = notFoundErrors + 1
    /\ IF session_error_notified
       THEN /\ svcPc' = [svcPc EXCEPT ![j] = "idle"]
            /\ UNCHANGED notifications
       ELSE /\ notifications' = notifications + 1
            /\ svcPc' = [svcPc EXCEPT ![j] = "notifying"]
    /\ UNCHANGED <<session_error_notified, svcStarts>>
    /\ UNCHANGED <<reqVars, extVars>>
    /\ UNCHANGED <<ordVars, msgVars, tkVars, parseVars, raiseVars, jobVars>>

\* the call raises NotFoundError: _notify_session_error.  With the flag set
\* it returns at once; else it sets the flag and awaits notify_all_admins
NotifySessionError(j) ==
    /\ svcPc[j] = "calling"
    /\ notFoundErrors < MaxNotFound
    /\ notFoundErrors' = notFoundErrors + 1
    /\ IF session_error_notified
       THEN /\ svcPc' = [svcPc EXCEPT ![j] = "idle"]
            /\ UNCHANGED <<session_error_notified, notifications>>
       ELSE /\ session_error_notified' = TRUE
            /\ notifications' = notifications + 1
            /\ svcPc' = [svcPc EXCEPT ![j] = "notifying"]
    /\ UNCHANGED svcStarts
    /\ UNCHANGED <<reqVars, extVars>>
    /\ UNCHANGED <<ordVars, msgVars, tkVars, parseVars, raiseVars, jobVars>>

\* notify_all_admins returns or raises (caught): the NotFoundError is raised again
NotifyAllAdminsEnds(j) ==
    /\ svcPc[j] = "notifying"
    /\ svcPc' = [svcPc EXCEPT ![j] = "idle"]
    /\ UNCHANGED <<session_error_notified, notifications, notFoundErrors, svcStarts>>
    /\ UNCHANGED <<reqVars, extVars>>
    /\ UNCHANGED <<ordVars, msgVars, tkVars, parseVars, raiseVars, jobVars>>

\* start(): a new StarAPI with the configured cookie; the flag is reset
StartService ==
    /\ svcStarts <= MaxServiceRestarts
    /\ svcStarts' = svcStarts + 1
    /\ session_error_notified' = FALSE
    /\ notifications' = 0
    /\ notFoundErrors' = 0
    /\ UNCHANGED svcPc
    /\ UNCHANGED <<reqVars, extVars>>
    /\ UNCHANGED <<ordVars, msgVars, tkVars, parseVars, raiseVars, jobVars>>

\* ---- _get_next_data, get_json ----

Callers == {1, 2}

NoBuild == 0

\* Config.MAX_RETRIES, Config.RETRY_DELAY
MAX_RETRIES == 3
RETRY_DELAY == 1

\* range(2) of _get_next_data
NextDataAttempts == 2

\* the status codes get_json tells apart, and a failure of the connection
RefusedStatuses == {401, 429}

InitRequests ==
    /\ build_id = NoBuild
    /\ serverBuild = 1
    /\ reqPc = [c \in Callers |-> "idle"]
    /\ nd_attempt = [c \in Callers |-> 0]
    /\ attempt = [c \in Callers |-> 0]
    /\ url_build = [c \in Callers |-> NoBuild]
    /\ reqResult = [c \in Callers |-> "none"]
    /\ resets = [c \in Callers |-> 0]
    /\ delays = [c \in Callers |-> <<>>]
    /\ reqCalls = [c \in Callers |-> 0]

\* the coroutines that call the methods of the service that take the lock
LockUsers == {"send_message", "bump_offers", "raise_lots"}

InitLock ==
    /\ locked = FALSE
    /\ waiters = <<>>
    /\ woken = {}
    /\ lkPc = [u \in LockUsers |-> "idle"]
    /\ lkCalls = [u \in LockUsers |-> 0]

\* the jobs of the scheduler that rewrite cache.json
StoreJobs == {"check_messages", "check_orders", "cleanup"}

\* the file as the bot finds it: an entry of a chat, an entry of an order,
\* and an entry that is older than seven days
InitStore ==
    /\ cacheFile = [msg |-> 0, ord |-> 0, old |-> TRUE]
    /\ stData = [j \in StoreJobs |-> [msg |-> 0, ord |-> 0, old |-> TRUE]]
    /\ stPc = [j \in StoreJobs |-> "idle"]
    /\ loopOwner = "none"
    /\ doneMsg = 0
    /\ doneOrd = 0
    /\ stOps = [j \in StoreJobs |-> 0]

\* no 'auto_bump' job: the scheduler as start() leaves it with
\* AUTO_BUMP_ENABLED off
InitToggleIdle ==
    /\ auto_bump_jobs = 0
    /\ lastToggle = "none"
    /\ toggleCalls = 0
    /\ autoBumpRuns = 0
    /\ schedulerCalls = 0

\* the coroutines that call StarAPI._get_build_id
GetCallers == {1, 2, 3}

\* BuildIdCache.__init__: nothing cached, the lock free
InitBuildIdCache ==
    /\ cached_at = 0
    /\ wallTime = 0
    /\ cacheLocked = FALSE
    /\ cacheWaiters = <<>>
    /\ getPc = [c \in GetCallers |-> "idle"]
    /\ getNow = [c \in GetCallers |-> 0]
    /\ getWaited = [c \in GetCallers |-> FALSE]
    /\ getFetched = [c \in GetCallers |-> FALSE]
    /\ getResult = [c \in GetCallers |-> NoBuild]
    /\ getCalls = 0
    /\ lastFetch = "none"
    /\ resetSince = FALSE

InitExtIdle == InitLock /\ InitStore /\ InitToggleIdle /\ InitBuildIdCache

InitGatewayIdle == InitService /\ InitRequests /\ InitExtIdle

\* the call of caller c ends with result
Ends(c, result) ==
    /\ reqPc' = [reqPc EXCEPT ![c] = "done"]
    /\ reqResult' = [reqResult EXCEPT ![c] = result]

\* a handler that raises the first NotFoundError
NotFoundCaught_RaisesAtOnce(c) ==
    /\ Ends(c, "NotFoundError")
    /\ UNCHANGED <<build_id, resets, nd_attempt>>

\* except NotFoundError of _get_next_data: on the first attempt the cache is
\* reset and the loop continues, on the second the error is raised
NotFoundCaught(c) ==
    IF nd_attempt[c] = 0
    THEN /\ build_id' = NoBuild
         /\ resets' = [resets EXCEPT ![c] = @ + 1]
         /\ nd_attempt' = [nd_attempt EXCEPT ![c] = 1]
         /\ reqPc' = [reqPc EXCEPT ![c] = "build_id"]
         /\ UNCHANGED reqResult
    ELSE /\ Ends(c, "NotFoundError")
         /\ UNCHANGED <<build_id, resets, nd_attempt>>

\* _get_next_data is called
CallNextData(c) ==
    /\ reqPc[c] \in {"idle", "done"}
    /\ reqCalls[c] < MaxCalls
    /\ reqCalls' = [reqCalls EXCEPT ![c] = @ + 1]
    /\ reqPc' = [reqPc EXCEPT ![c] = "build_id"]
    /\ nd_attempt' = [nd_attempt EXCEPT ![c] = 0]
    /\ attempt' = [attempt EXCEPT ![c] = 0]
    /\ url_build' = [url_build EXCEPT ![c] = NoBuild]
    /\ reqResult' = [reqResult EXCEPT ![c] = "none"]
    /\ resets' = [resets EXCEPT ![c] = 0]
    /\ delays' = [delays EXCEPT ![c] = <<>>]
    /\ UNCHANGED <<build_id, serverBuild>>
    /\ UNCHANGED <<svcVars, extVars>>
    /\ UNCHANGED <<ordVars, msgVars, tkVars, parseVars, raiseVars, jobVars>>

\* build_id = await self._get_build_id(): the cached id, or the id of the
\* page fetched now; the fetch may raise NotFoundError or another error
\* (PageError).  Then get_json sends its request.
GetBuildId(c, fetched) ==
    /\ reqPc[c] = "build_id"
    /\ IF build_id # NoBuild
       THEN /\ fetched = "cached"
            /\ url_build' = [url_build EXCEPT ![c] = build_id]
            /\ reqPc' = [reqPc EXCEPT ![c] = "request"]
            /\ UNCHANGED <<build_id, resets, nd_attempt, reqResult>>
       ELSE CASE fetched = "page" ->
                   /\ build_id' = serverBuild
                   /\ url_build' = [url_build EXCEPT ![c] = serverBuild]
                   /\ reqPc' = [reqPc EXCEPT ![c] = "request"]
                   /\ UNCHANGED <<resets, nd_attempt, reqResult>>
              [] fetched = "NotFoundError" ->
                   /\ NotFoundCaught(c)
                   /\ UNCHANGED url_build
              [] fetched = "PageError" ->
                   /\ Ends(c, "PageError")
                   /\ UNCHANGED <<build_id, url_build, resets, nd_attempt>>
              [] OTHER -> FALSE
    /\ attempt' = [attempt EXCEPT ![c] = 0]
    /\ delays' = [delays EXCEPT ![c] = <<>>]
    /\ UNCHANGED <<serverBuild, reqCalls>>
    /\ UNCHANGED <<svcVars, extVars>>
    /\ UNCHANGED <<ordVars, msgVars, tkVars, parseVars, raiseVars, jobVars>>

\* the answer is 200 with the data of the page
HttpOk(c) ==
    /\ reqPc[c] = "request"
    /\ url_build[c] = serverBuild
    /\ Ends(c, "data")
    /\ UNCHANGED <<build_id, serverBuild, nd_attempt, attempt, url_build, resets, delays,
                   reqCalls>>
    /\ UNCHANGED <<svcVars, extVars>>
    /\ UNCHANGED <<ordVars, msgVars, tkVars, parseVars, raiseVars, jobVars>>

\* the answer is 404: get_json raises NotFoundError
HttpNotFound(c) ==
    /\ reqPc[c] = "request"
    /\ NotFoundCaught(c)
    /\ UNCHANGED <<serverBuild, attempt, url_build, delays, reqCalls>>
    /\ UNCHANGED <<svcVars, extVars>>
    /\ UNCHANGED <<ordVars, msgVars, tkVars, parseVars, raiseVars, jobVars>>

\* the answer is 401 or 429: AuthenticationError or RateLimitError is raised
HttpRefused(c, status) ==
    /\ reqPc[c] = "request"
    /\ Ends(c, IF status = 401 THEN "AuthenticationError" ELSE "RateLimitError")
    /\ UNCHANGED <<build_id, serverBuild, nd_attempt, attempt, url_build, resets, delays,
                   reqCalls>>
    /\ UNCHANGED <<svcVars, extVars>>
    /\ UNCHANGED <<ordVars, msgVars, tkVars, parseVars, raiseVars, jobVars>>

\* the answer is 5xx: ServerError is raised inside the try; it is a
\* StarAPIError and no aiohttp.ClientError, so the except clause of the
\* loop does not catch it and it leaves get_json at once
HttpServerError(c) ==
    /\ reqPc[c] = "request"
    /\ Ends(c, "ServerError")
    /\ UNCHANGED <<build_id, serverBuild, nd_attempt, attempt, url_build, resets, delays,
                   reqCalls>>
    /\ UNCHANGED <<svcVars, extVars>>
    /\ UNCHANGED <<ordVars, msgVars, tkVars, parseVars, raiseVars, jobVars>>

\* the request fails with an aiohttp.ClientError: after the last attempt
\* StarAPIError is raised, else the task sleeps RETRY_DELAY * (attempt + 1)
NetworkError(c) ==
    /\ reqPc[c] = "request"
    /\ IF attempt[c] = MAX_RETRIES - 1
       THEN /\ Ends(c, "StarAPIError")
            /\ UNCHANGED delays
       ELSE /\ reqPc' = [reqPc EXCEPT ![c] = "retry_sleep"]
            /\ delays' = [delays EXCEPT ![c] = Append(@, RETRY_DELAY * (attempt[c] + 1))]
            /\ UNCHANGED reqResult
    /\ UNCHANGED <<build_id, serverBuild, nd_attempt, attempt, url_build, resets, reqCalls>>
    /\ UNCHANGED <<svcVars, extVars>>
    /\ UNCHANGED <<ordVars, msgVars, tkVars, parseVars, raiseVars, jobVars>>

\* the sleep ends: the next attempt of the loop sends the request again
RetrySleepDone(c) ==
    /\ reqPc[c] = "retry_sleep"
    /\ attempt' = [attempt EXCEPT ![c] = @ + 1]
    /\ reqPc' = [reqPc EXCEPT ![c] = "request"]
    /\ UNCHANGED <<build_id, serverBuild, nd_attempt, url_build, reqResult, resets, delays,
                   reqCalls>>
    /\ UNCHANGED <<svcVars, extVars>>
    /\ UNCHANGED <<ordVars, msgVars, tkVars, parseVars, raiseVars, jobVars>>

\* the site is deployed anew: the build ids of before answer 404
Deploy ==
    /\ serverBuild <= MaxDeploys
    /\ serverBuild' = serverBuild + 1
    /\ UNCHANGED <<build_id, reqPc, nd_attempt, attempt, url_build, reqResult, resets,
                   delays, reqCalls>>
    /\ UNCHANGED <<svcVars, extVars>>
    /\ UNCHANGED <<ordVars, msgVars, tkVars, parseVars, raiseVars, jobVars>>

NextService ==
    \/ \E j \in ServiceJobs : ServiceCall(j)
    \/ \E j \in ServiceJobs : ServiceCallEnds(j)
    \/ \E j \in ServiceJobs : NotifySessionError(j)
    \/ \E j \in ServiceJobs : NotifyAllAdminsEnds(j)
    \/ StartService

\* what _get_build_id does: the cached id, the id of the page, or an error
BuildIdOutcomes == {"cached", "page", "NotFoundError", "PageError"}

NextRequests ==
    \/ \E c \in Callers : CallNextData(c)
    \/ \E c \in Callers, fetched \in BuildIdOutcomes : GetBuildId(c, fetched)
    \/ \E c \in Callers : HttpOk(c)
    \/ \E c \in Callers : HttpNotFound(c)
    \/ \E c \in Callers, status \in RefusedStatuses : HttpRefused(c, status)
    \/ \E c \in Callers : HttpServerError(c)
    \/ \E c \in Callers : NetworkError(c)
    \/ \E c \in Callers : RetrySleepDone(c)
    \/ Deploy

-----------------------------------------------------------------------------
(* The service lock: StarvellService._lock, send_message, bump_offers, *)
(* raise_lots *)

\* Lock.acquire by coroutine u, which goes on at pc held: the lock is taken
\* at once when it is free and nobody waits, otherwise u joins the waiters
\* and is suspended at pc wait
Acquire(u, held, wait) ==
    IF ~locked /\ waiters = <<>>
    THEN /\ locked' = TRUE
         /\ lkPc' = [lkPc EXCEPT ![u] = held]
         /\ UNCHANGED <<waiters, woken>>
    ELSE /\ waiters' = Append(waiters, u)
         /\ lkPc' = [lkPc EXCEPT ![u] = wait]
         /\ UNCHANGED <<locked, woken>>

\* Lock.release: the lock is free and the future of the first waiter is
\* completed (_wake_up_first)
Release ==
    /\ locked' = FALSE
    /\ woken' = IF waiters # <<>> THEN woken \cup {Head(waiters)} ELSE woken
    /\ UNCHANGED waiters

\* the rest of the frame of the actions of the lock
LockFrame ==
    UNCHANGED <<ordVars, msgVars, tkVars, parseVars, raiseVars, jobVars, svcVars, reqVars,
                storeVars, toggleVars, buildVars>>

\* send_message, bump_offers or raise_lots is called: async with self._lock
ServiceLockCall(u) ==
    /\ lkPc[u] = "idle"
    /\ lkCalls[u] < MaxLockCalls
    /\ lkCalls' = [lkCalls EXCEPT ![u] = @ + 1]
    /\ Acquire(u, "holding", "waiting")
    /\ LockFrame

\* a waiter whose future is completed runs again: it leaves the waiters and
\* takes the lock
WaiterResumes(u) ==
    /\ lkPc[u] \in {"waiting", "inner_waiting"}
    /\ u \in woken
    /\ woken' = woken \ {u}
    /\ waiters' = SelectSeq(waiters, LAMBDA w : w # u)
    /\ locked' = TRUE
    /\ lkPc' = [lkPc EXCEPT ![u] = IF lkPc[u] = "waiting" THEN "holding" ELSE "inner_holding"]
    /\ UNCHANGED lkCalls
    /\ LockFrame

\* where coroutine u awaits the gateway: send_message and bump_offers inside
\* their async with, raise_lots inside the async with of the bump_offers it
\* called
GatewayPc(u) == IF u = "raise_lots" THEN "inner_holding" ELSE "holding"

\* the gateway calls inside the lock return or raise: the lock is released
\* and the call ends (raise_lots leaves its own async with as well)
GatewayCallEnds(u) ==
    /\ lkPc[u] = GatewayPc(u)
    /\ Release
    /\ lkPc' = [lkPc EXCEPT ![u] = "idle"]
    /\ UNCHANGED lkCalls
    /\ LockFrame

\* raise_lots holds the lock and awaits self.bump_offers, which begins with
\* async with self._lock
RaiseLotsCallsBumpOffers ==
    /\ lkPc["raise_lots"] = "holding"
    /\ Acquire("raise_lots", "inner_holding", "inner_waiting")
    /\ UNCHANGED lkCalls
    /\ LockFrame

NextLock ==
    \/ \E u \in LockUsers : ServiceLockCall(u)
    \/ \E u \in LockUsers : WaiterResumes(u)
    \/ \E u \in LockUsers : GatewayCallEnds(u)
    \/ RaiseLotsCallsBumpOffers

-----------------------------------------------------------------------------
(* The cache file: JSONStorage._read and _write, CacheStorage.set_last_message, *)
(* set_last_order and clear_old_cache, called by the jobs 'check_messages', *)
(* 'check_orders' and 'cleanup' of the one event loop.  A job runs from the *)
(* end of one await to the next await that suspends it; _read and _write take *)
(* the lock of the storage, do their file access without an await and give *)
(* the lock back, so the lock is free whenever a job is suspended and neither *)
(* call suspends its caller. *)

\* what the storage call of job j makes of the data it read: set_last_message
\* puts the id, set_last_order the status, clear_old_cache drops the entries
\* that are older than the cutoff
Modified(j, data, id, status) ==
    IF j = "check_messages" THEN [data EXCEPT !.msg = id]
    ELSE IF j = "check_orders" THEN [data EXCEPT !.ord = status]
    ELSE [data EXCEPT !.old = FALSE]

\* the rest of the frame of the actions of the storage
StoreFrame ==
    UNCHANGED <<ordVars, msgVars, tkVars, parseVars, raiseVars, jobVars, svcVars, reqVars,
                lockVars, toggleVars, buildVars>>

\* a _read that suspends its caller until the file has been read
StorageReads_Suspending(j) ==
    /\ loopOwner = "none"
    /\ stPc[j] = "idle"
    /\ stOps[j] < MaxStoreOps
    /\ stOps' = [stOps EXCEPT ![j] = @ + 1]
    /\ stData' = [stData EXCEPT ![j] = cacheFile]
    /\ stPc' = [stPc EXCEPT ![j] = "loaded"]
    /\ loopOwner' = "none"
    /\ UNCHANGED <<cacheFile, doneMsg, doneOrd>>
    /\ StoreFrame

\* job j resumes from the await of a gateway call (or is started by the
\* scheduler) and calls the storage: data = await self._read().  The lock is
\* free and the file is read without an await, so j keeps the event loop.
StorageReads(j) ==
    /\ loopOwner = "none"
    /\ stPc[j] = "idle"
    /\ stOps[j] < MaxStoreOps
    /\ stOps' = [stOps EXCEPT ![j] = @ + 1]
    /\ stData' = [stData EXCEPT ![j] = cacheFile]
    /\ stPc' = [stPc EXCEPT ![j] = "loaded"]
    /\ loopOwner' = j
    /\ UNCHANGED <<cacheFile, doneMsg, doneOrd>>
    /\ StoreFrame

\* data[...] = ...; await self._write(data): the file is replaced by the
\* data of j, the call is complete, and j goes on to its next await
StorageWrites(j) ==
    /\ stPc[j] = "loaded"
    /\ loopOwner \in {j, "none"}
    /\ cacheFile' = Modified(j, stData[j], doneMsg + 1, doneOrd + 1)
    /\ doneMsg' = IF j = "check_messages" THEN doneMsg + 1 ELSE doneMsg
    /\ doneOrd' = IF j = "check_orders" THEN doneOrd + 1 ELSE doneOrd
    /\ stPc' = [stPc EXCEPT ![j] = "idle"]
    /\ loopOwner' = "none"
    /\ UNCHANGED <<stData, stOps>>
    /\ StoreFrame

NextStore ==
    \/ \E j \in StoreJobs : StorageReads(j)
    \/ \E j \in StoreJobs : StorageWrites(j)

-----------------------------------------------------------------------------
(* BuildIdCache: get and reset *)

\* Config.BUILD_ID_CACHE_TTL, in ticks of wallTime (1800 seconds)
BUILD_ID_CACHE_TTL == 2

BuildFrame ==
    UNCHANGED <<ordVars, msgVars, tkVars, parseVars, raiseVars, jobVars, svcVars,
                lockVars, storeVars, toggleVars>>

RequestsFrame ==
    UNCHANGED <<reqPc, nd_attempt, attempt, url_build, reqResult, resets, delays, reqCalls>>

\* if self._build_id and (now - self._cached_at) < self.ttl
CacheIsFresh(id, at, t) == id # NoBuild /\ t - at < BUILD_ID_CACHE_TTL

\* Lock.release() as get() leaves its 'async with': the lock is free and the
\* future of the oldest of the waiters wait is completed
WokenBy(wait) ==
    [c \in GetCallers |->
        IF wait # <<>> /\ c = Head(wait) /\ getPc[c] = "waiting" THEN "woken" ELSE getPc[c]]

\* a get() that fetches whatever the cache holds once it has the lock
GetBody_NoSecondLook(c, wait) ==
    /\ cacheLocked' = TRUE
    /\ getNow' = [getNow EXCEPT ![c] = wallTime]
    /\ getFetched' = [getFetched EXCEPT ![c] = TRUE]
    /\ getPc' = [getPc EXCEPT ![c] = "fetching"]
    /\ UNCHANGED getResult

\* the body of get() as caller c runs it with the lock, up to its await or
\* its return; wait is the queue of the lock as c found it
GetBody(c, wait) ==
    IF CacheIsFresh(build_id, cached_at, wallTime)
    THEN /\ getResult' = [getResult EXCEPT ![c] = build_id]
         /\ cacheLocked' = FALSE
         /\ getPc' = [WokenBy(wait) EXCEPT ![c] = "idle"]
         /\ UNCHANGED <<getNow, getFetched>>
    ELSE /\ cacheLocked' = TRUE
         /\ getNow' = [getNow EXCEPT ![c] = wallTime]
         /\ getFetched' = [getFetched EXCEPT ![c] = TRUE]
         /\ getPc' = [getPc EXCEPT ![c] = "fetching"]
         /\ UNCHANGED getResult

\* caller c calls get(fetch): acquire() returns at once when the lock is free
\* and nobody waits for it, and the body runs in the same step; otherwise c
\* is suspended at the end of the queue
GetCalled(c) ==
    /\ getPc[c] = "idle"
    /\ getCalls < MaxGetCalls
    /\ getCalls' = getCalls + 1
    /\ IF ~cacheLocked /\ cacheWaiters = <<>>
       THEN /\ getWaited' = [getWaited EXCEPT ![c] = FALSE]
            /\ IF CacheIsFresh(build_id, cached_at, wallTime)
               THEN /\ getFetched' = [getFetched EXCEPT ![c] = FALSE]
                    /\ getResult' = [getResult EXCEPT ![c] = build_id]
                    /\ UNCHANGED <<cacheLocked, getPc, getNow>>
               ELSE /\ cacheLocked' = TRUE
                    /\ getNow' = [getNow EXCEPT ![c] = wallTime]
                    /\ getFetched' = [getFetched EXCEPT ![c] = TRUE]
                    /\ getPc' = [getPc EXCEPT ![c] = "fetching"]
                    /\ UNCHANGED getResult
            /\ UNCHANGED cacheWaiters
       ELSE /\ cacheWaiters' = Append(cacheWaiters, c)
            /\ getPc' = [getPc EXCEPT ![c] = "waiting"]
            /\ getWaited' = [getWaited EXCEPT ![c] = TRUE]
            /\ getFetched' = [getFetched EXCEPT ![c] = FALSE]
            /\ UNCHANGED <<cacheLocked, getNow, getResult>>
    /\ UNCHANGED <<build_id, serverBuild, cached_at, wallTime, lastFetch, resetSince>>
    /\ RequestsFrame
    /\ BuildFrame

\* the waiter whose future was completed runs again: it leaves the queue,
\* takes the lock and runs the body of get()
WaiterHasLock(c) ==
    /\ getPc[c] = "woken"
    /\ cacheWaiters' = Tail(cacheWaiters)
    /\ GetBody(c, Tail(cacheWaiters))
    /\ UNCHANGED <<build_id, serverBuild, cached_at, wallTime, getWaited, getCalls,
                   lastFetch, resetSince>>
    /\ RequestsFrame
    /\ BuildFrame

\* await fetch_func() ends: with the build id of the page, which get()
\* stores with the time of its entry, or with an exception that get() lets
\* through; the 'async with' releases the lock either way
FetchEnds(c, ok) ==
    /\ getPc[c] = "fetching"
    /\ IF ok
       THEN /\ build_id' = serverBuild
            /\ cached_at' = getNow[c]
            /\ getResult' = [getResult EXCEPT ![c] = serverBuild]
            /\ lastFetch' = "ok"
       ELSE /\ getResult' = [getResult EXCEPT ![c] = NoBuild]
            /\ lastFetch' = "failed"
            /\ UNCHANGED <<build_id, cached_at>>
    /\ resetSince' = FALSE
    /\ cacheLocked' = FALSE
    /\ getPc' = [WokenBy(cacheWaiters) EXCEPT ![c] = "idle"]
    /\ getNow' = [getNow EXCEPT ![c] = 0]
    /\ UNCHANGED <<serverBuild, wallTime, cacheWaiters, getWaited, getFetched, getCalls>>
    /\ RequestsFrame
    /\ BuildFrame

\* self._build_id_cache.reset(), called by a _get_next_data that was
\* answered 404; it does not take the lock
CacheReset ==
    /\ build_id' = NoBuild
    /\ cached_at' = 0
    /\ resetSince' = TRUE
    /\ UNCHANGED <<serverBuild, wallTime, cacheLocked, cacheWaiters, getPc, getNow,
                   getWaited, getFetched, getResult, getCalls, lastFetch>>
    /\ RequestsFrame
    /\ BuildFrame

\* time passes; a waiter whose future is completed runs in the next
\* iteration of the event loop, before the clock shows another time
WallClockTicks ==
    /\ wallTime < MaxWallTime
    /\ \A c \in GetCallers : getPc[c] # "woken"
    /\ wallTime' = wallTime + 1
    /\ UNCHANGED <<build_id, serverBuild, cached_at, cacheLocked, cacheWaiters, getPc,
                   getNow, getWaited, getFetched, getResult, getCalls, lastFetch,
                   resetSince>>
    /\ RequestsFrame
    /\ BuildFrame

NextBuildId ==
    \/ \E c \in GetCallers : GetCalled(c)
    \/ \E c \in GetCallers : WaiterHasLock(c)
    \/ \E c \in GetCallers, ok \in BOOLEAN : FetchEnds(c, ok)
    \/ CacheReset
    \/ WallClockTicks
    \/ Deploy

-----------------------------------------------------------------------------
(* The job 'auto_bump': BackgroundTasks.start and toggle_auto_bump *)

\* the rest of the frame of the actions of the job 'auto_bump'
ToggleFrame ==
    UNCHANGED <<ordVars, msgVars, tkVars, parseVars, raiseVars, jobVars, svcVars, reqVars,
                lockVars, storeVars, buildVars>>

\* a toggle_auto_bump that adds or removes without looking at the scheduler
ToggleAutoBump_Unguarded(enabled) ==
    /\ toggleCalls < MaxToggleCalls
    /\ toggleCalls' = toggleCalls + 1
    /\ lastToggle' = IF enabled THEN "on" ELSE "off"
    /\ auto_bump_jobs' = IF enabled THEN auto_bump_jobs + 1 ELSE 0
    /\ schedulerCalls' = schedulerCalls + 1
    /\ UNCHANGED autoBumpRuns
    /\ ToggleFrame

\* toggle_auto_bump(enabled): the job is added when enabled and get_job finds
\* none, removed when not enabled and get_job finds it; the method has no
\* await
ToggleAutoBump(enabled) ==
    /\ toggleCalls < MaxToggleCalls
    /\ toggleCalls' = toggleCalls + 1
    /\ lastToggle' = IF enabled THEN "on" ELSE "off"
    /\ auto_bump_jobs' = IF enabled /\ auto_bump_jobs = 0 THEN auto_bump_jobs + 1
                         ELSE IF ~enabled /\ auto_bump_jobs > 0 THEN auto_bump_jobs - 1
                         ELSE auto_bump_jobs
    /\ schedulerCalls' = IF enabled <=> auto_bump_jobs = 0 THEN schedulerCalls + 1
                         ELSE schedulerCalls
    /\ UNCHANGED autoBumpRuns
    /\ ToggleFrame

\* the interval of a registered 'auto_bump' job passes: the scheduler runs
\* _auto_bump
AutoBumpFires ==
    /\ auto_bump_jobs > 0
    /\ autoBumpRuns < MaxAutoBumpRuns
    /\ autoBumpRuns' = autoBumpRuns + 1
    /\ UNCHANGED <<auto_bump_jobs, lastToggle, toggleCalls, schedulerCalls>>
    /\ ToggleFrame

NextToggle ==
    \/ \E enabled \in BOOLEAN : ToggleAutoBump(enabled)
    \/ AutoBumpFires

-----------------------------------------------------------------------------
(* Specifications *)

\* the bot after construction, before the first poll, with the default configuration
InitIdle ==
    InitOrders /\ InitMessagesIdle /\ autoRead = TRUE /\ InitTicketIdle /\ InitParseIdle /\ InitRaiseIdle /\ InitJobsIdle /\ InitGatewayIdle

\* ... with either setting of autoRead
InitAutoRead == InitOrders /\ InitMessages /\ InitTicketIdle /\ InitParseIdle /\ InitRaiseIdle /\ InitJobsIdle /\ InitGatewayIdle

\* ... with one of the ticket intervals
InitInterval ==
    InitOrders /\ InitMessagesIdle /\ autoRead = TRUE /\ InitTicket /\ InitParseIdle /\ InitRaiseIdle /\ InitJobsIdle /\ InitGatewayIdle

SpecOrders == InitIdle /\ [][NextOrders]_vars

SpecOrdersCleanup == InitIdle /\ [][NextOrdersCleanup]_vars

SpecMessages == InitAutoRead /\ [][NextMessages]_vars

SpecMessagesDel == InitAutoRead /\ [][NextMessagesDel]_vars

SpecTicket == InitInterval /\ [][NextTicket]_vars

\* ... with an error message to parse
InitMessageGiven ==
    /\ InitOrders /\ InitMessagesIdle /\ autoRead = TRUE /\ InitTicketIdle
    /\ InitParse /\ InitRaiseIdle /\ InitJobsIdle /\ InitGatewayIdle

SpecParse == InitMessageGiven /\ [][NextParse]_vars

\* ... in a call of _optimize_next_call
InitCandidatesGiven ==
    /\ InitOrders /\ InitMessagesIdle /\ autoRead = TRUE /\ InitTicketIdle
    /\ InitParseIdle /\ InitOptimize /\ InitJobsIdle /\ InitGatewayIdle

SpecOptimize == InitCandidatesGiven /\ [][NextOptimize]_vars

\* ... with the task of the raise loop created, with either setting of autoRaise
InitAutoRaise ==
    /\ InitOrders /\ InitMessagesIdle /\ autoRead = TRUE /\ InitTicketIdle
    /\ InitParseIdle /\ InitRaise /\ InitJobsIdle /\ InitGatewayIdle

SpecRaise == InitAutoRaise /\ [][NextRaise]_vars

SpecRaiseSwitched == InitAutoRaise /\ [][NextRaiseSwitched]_vars

\* the raise loop whose awaits all end: gateway calls return or raise, and
\* the timers of asyncio.sleep and wait_for fire
SpecRaiseFair == InitAutoRaise /\ [][NextRaiseListed]_vars /\ WF_vars(LoopSteps)

\* ... and with an operator who switches auto-bump off and on
SpecRaiseSwitchedFair == InitAutoRaise /\ [][NextRaiseSwitched]_vars /\ WF_vars(LoopSteps)

\* ... with the scheduler started and auto-raise enabled
InitScheduled ==
    /\ InitOrders /\ InitMessagesIdle /\ autoRead = TRUE /\ InitTicketIdle
    /\ InitParseIdle /\ InitRaiseService(TRUE, DefaultBumpInterval) /\ InitJobsIdle /\ InitGatewayIdle

SpecJobs == InitScheduled /\ [][NextJobs]_vars

SpecService == InitIdle /\ [][NextService]_vars

SpecRequests == InitIdle /\ [][NextRequests]_vars

\* after start() with either setting of AUTO_BUMP_ENABLED: the job 'auto_bump'
\* is registered when the setting is on
InitStarted ==
    /\ InitOrders /\ InitMessagesIdle /\ autoRead = TRUE /\ InitTicketIdle
    /\ InitParseIdle /\ InitRaiseIdle /\ InitJobsIdle /\ InitService /\ InitRequests
    /\ InitLock /\ InitStore /\ InitBuildIdCache
    /\ auto_bump_jobs \in {0, 1}
    /\ lastToggle = "none"
    /\ toggleCalls = 0
    /\ autoBumpRuns = 0
    /\ schedulerCalls = 0

\* the operator's toggle_auto_bump calls and the runs of the job
SpecToggle == InitStarted /\ [][NextToggle]_vars

\* the callers of BuildIdCache.get, the resets of the cache and the clock
SpecBuildId == InitIdle /\ [][NextBuildId]_vars

\* the jobs that rewrite the cache file
SpecStore == InitIdle /\ [][NextStore]_vars

\* the coroutines that take the service lock; every coroutine that can run
\* does run, and every gateway call ends
SpecLock == InitIdle /\ [][NextLock]_vars /\ WF_vars(NextLock)

-----------------------------------------------------------------------------
(* Properties of the order polls *)

\* the step in which get_orders() returned and the loop ran
OrdersPollCompleted ==
    ordPc = "get_orders" /\ ordPc' = "idle" /\ ordResult' = "returned"

\* C2: in every poll an order of the fetched list is emitted if and only if it
\* has no stored status or its observed status differs from the stored one;
\* an order whose status is the one the previous poll saw is not emitted
\* again, and only listed orders are emitted; an order seen as CREATED,
\* CREATED, PAID, PAID, COMPLETED over five polls is emitted exactly 3 times.
C2_EmittedIffStatusChanged ==
    /\ [][OrdersPollCompleted =>
            /\ EventIds(new_orders') \subseteq EventIds(ordSnapshot')
            /\ \A i \in 1..Len(ordSnapshot') :
                 LET o == ordSnapshot'[i].id
                     st == ordSnapshot'[i].status
                 IN /\ (o \in EventIds(new_orders'))
                         <=> (last_orders[o] = NoOrder \/ last_orders[o] # st)
                    /\ (obsPrev[o] = st => o \notin EventIds(new_orders'))]_vars
    /\ [](exStage = Len(ExampleRun) => exEvents = 3)

\* the five polls of the example happened and gave three events
C2_Witness == exStage = Len(ExampleRun) /\ exEvents = 3

\* C10: after every completed poll of check_new_orders the stored status of
\* every order of the polled list equals the status that poll observed, also
\* for an order that changed status more than once since it was last listed.
C10_StoredStatusIsObserved ==
    ordResult = "returned" =>
        \A i \in 1..Len(ordSnapshot) :
            last_orders[ordSnapshot[i].id] = ordSnapshot[i].status

\* a completed poll listed an order that went through an intermediate status
C10_Witness ==
    /\ ordResult = "returned"
    /\ \E i \in 1..Len(ordSnapshot) :
          /\ ordSnapshot[i].id \in ordSkipped
          /\ last_orders[ordSnapshot[i].id] = ordSnapshot[i].status

\* C29: with the cleanup job running between the polls, a poll does not
\* emit an order that the previous poll that listed it saw with the same
\* status and that the marketplace has not updated since
C29_UnchangedNeverEmittedAgain ==
    [][OrdersPollCompleted =>
          \A i \in 1..Len(ordSnapshot') :
              LET o == ordSnapshot'[i].id
              IN (obsPrev[o] = ordSnapshot'[i].status /\ updatesSince[o] = 0)
                    => o \notin EventIds(new_orders')]_vars

\* C36: notify_new_order is called only for an emitted order whose status
\* in the fetched list is CREATED; an emitted order with another status has
\* its status stored and is not passed to notify_new_order.
C36_NotifiedOnlyWhenCreated ==
    ordResult = "returned" =>
        /\ \A i \in 1..Len(order_notifications) :
              /\ order_notifications[i].status = "CREATED"
              /\ \E k \in 1..Len(ordSnapshot) : ordSnapshot[k] = order_notifications[i]
              /\ \E k \in 1..Len(new_orders) : new_orders[k] = order_notifications[i]
        /\ \A k \in 1..Len(new_orders) :
              new_orders[k].status # "CREATED"
                 => /\ last_orders[new_orders[k].id] = new_orders[k].status
                    /\ new_orders[k].id \notin EventIds(order_notifications)

\* a poll emitted two orders: one with status CREATED, which it notified,
\* and one with status PAID, which it only stored
C36_Witness ==
    /\ ordResult = "returned" /\ ordPc = "idle"
    /\ Len(new_orders) = 2
    /\ Len(order_notifications) = 1
    /\ \E k \in 1..2 : /\ new_orders[k].status = "PAID"
                        /\ obsPrev[new_orders[k].id] = "PAID"
                        /\ last_orders[new_orders[k].id] = "PAID"

-----------------------------------------------------------------------------
(* Properties of the message polls *)

\* C1: on a marketplace where messages only arrive (the newest id of a chat
\* never goes down), no step replaces the stored last-seen id of a chat by an
\* older id, and no step of a poll removes it.
C1_CursorNeverMovesBack ==
    [][\A c \in ChatIds :
          last_messages[c] # NoMessage => last_messages'[c] >= last_messages[c]]_vars

\* a poll replaced a stored id by a newer one
C1_Witness ==
    /\ lastProc.chat # NoChat
    /\ lastProc.cursor # NoMessage
    /\ last_messages[lastProc.chat] > lastProc.cursor

\* C3: within one running process the notifier is called at most once for a
\* chat id and message id, also when the stored id is not in the fetched list
\* and the detector emits the whole list again.
C3_NotifiedAtMostOnce ==
    \A c \in ChatIds : \A m \in 1..MaxMsgId : notified[c][m] <= 1

\* the stored id was not in the fetched list, an event already notified was
\* emitted again and the delivery loop skipped it
C3_Witness ==
    /\ lastDeliver.outcome = "seen"
    /\ lastProc.chat = lastDeliver.chat
    /\ ~lastProc.first
    /\ ~lastProc.found
    /\ notified[lastDeliver.chat][lastDeliver.id] = 1

\* C4: a chat without stored id whose listed unread count is 0 gives no
\* event; with unread count k > 0 its first processing gives exactly the
\* newest min(k, number of fetched messages) messages of the fetched list.
C4_FirstRunEvents ==
    /\ \A c \in ChatIds :
          snapUnread[c] = 0 => \A i \in 1..Len(new_messages) : new_messages[i].chat_id # c
    /\ (lastProc.chat # NoChat /\ lastProc.first) =>
          /\ Len(lastProc.events) = Min(lastProc.unread, Len(lastProc.window))
          /\ lastProc.events = SubSeq(lastProc.window, 1, Len(lastProc.events))

\* a first processing with unread count 3 and more than 3 fetched messages
\* gave the 3 newest
C4_Witness ==
    /\ lastProc.chat # NoChat
    /\ lastProc.first
    /\ lastProc.unread = 3
    /\ Len(lastProc.window) > 3
    /\ lastProc.events = SubSeq(lastProc.window, 1, 3)

\* C7: when get_messages fails for one chat, the call still returns, and the
\* other unread chats of the poll are processed.
C7_FetchFailureIsolated ==
    (fetchFailed # {} /\ msgPc \in {"idle", "deliver"}) =>
        /\ msgResult = "returned"
        /\ \A c \in ChatIds : (snapUnread[c] > 0 /\ c \notin fetchFailed) => c \in processed

\* C8: no event whose author is the seller or a blacklisted user is handed to
\* the notifier.
C8_OwnAndBlacklistedNeverNotified ==
    lastDeliver.outcome = "notified" => lastDeliver.author \notin {"me", "blocked"}

\* C9: after the processing of a chat that had a stored id and a non-empty
\* fetched list, the stored id is the newest id of that list, found or not.
C9_CursorIsNewestFetched ==
    (lastProc.chat # NoChat /\ ~lastProc.first /\ lastProc.window # <<>>) =>
        last_messages[lastProc.chat] = Head(lastProc.window)

\* the stored id was not in the fetched list and the newest id was stored
C9_Witness ==
    /\ lastProc.chat # NoChat
    /\ ~lastProc.first
    /\ lastProc.window # <<>>
    /\ ~lastProc.found
    /\ last_messages[lastProc.chat] = Head(lastProc.window)

\* C28: when the fetch of a later chat has failed and check_new_messages
\* has raised, no chat processed before it in that poll has had its stored
\* id moved past a buyer's message that was not handed to the notifier
C28_NoEventLostBehindCursor ==
    (msgPc = "idle" /\ msgResult = "raised" /\ fetchFailed # {} /\ processed # {}) =>
        LET c == lastProc.chat
        IN \A i \in 1..Len(chatMsgs[c]) :
              LET m == chatMsgs[c][i]
              IN ( /\ m.author = "buyer"
                   /\ \E k \in 1..Len(lastProc.events) : lastProc.events[k] = m.id
                   /\ last_messages[c] # NoMessage /\ m.id <= last_messages[c] )
                 => notified[c][m.id] >= 1

-----------------------------------------------------------------------------
(* Properties of the auto-tickets *)

\* C5: any two successful ticket sends are at least AUTO_TICKET_INTERVAL
\* apart: the cooldown check and the send are atomic with respect to the
\* check of the other ticket job.
C5_SendsIntervalApart ==
    prevSend # NoTime => lastSend - prevSend >= interval

\* C6: when a service constructed from the cache file finds a send recorded
\* at time T there, can_send_ticket is false at every time before
\* T + interval, as long as that service has not sent a ticket itself.
C6_CooldownSurvivesRestart ==
    (/\ ~sentSinceLoad
     /\ ticketFile.kind = "json"
     /\ now < ticketFile.last_ticket_time + interval)
        => ~CanSendTicket(last_ticket_time, now, interval)

\* the process was restarted inside the cooldown of a recorded send, the
\* first check of the new process has started and no ticket may be sent
C6_Witness ==
    /\ restarts > 0
    /\ ~sentSinceLoad
    /\ ticketFile.kind = "json"
    /\ last_ticket_time = ticketFile.last_ticket_time
    /\ now < ticketFile.last_ticket_time + interval
    /\ first_run_done
    /\ ~CanSendTicket(last_ticket_time, now, interval)


\* C16: whenever send_ticket returns success to a handler, the cache file
\* holds the value of _last_ticket_time that the service holds in memory.
C16_SuccessIsPersisted ==
    [][\A j \in TicketJobs :
          (sendResult[j] # "success" /\ sendResult'[j] = "success") =>
              ticketFile' = TicketJson(last_ticket_time')]_vars

\* C35: a send_ticket that returns (False, ...) changes neither
\* _last_ticket_time nor the cache file of the last ticket time: the next
\* can_send_ticket answers as it would have without the attempt.
C35_FailedSendKeepsCooldown ==
    [][(\E j \in TicketJobs : sendResult[j] # "failure" /\ sendResult'[j] = "failure")
          => /\ last_ticket_time' = last_ticket_time
             /\ ticketFile' = ticketFile
             /\ \A t \in 0..MaxTime :
                   CanSendTicket(last_ticket_time', t, interval)
                      = CanSendTicket(last_ticket_time, t, interval)]_vars

\* a send failed after an earlier one had succeeded, with the interval over
C35_Witness ==
    /\ \E j \in TicketJobs : sendResult[j] = "failure"
    /\ last_ticket_time # NoTime
    /\ last_ticket_time < now
    /\ ticketFile = TicketJson(last_ticket_time)

\* a first send failed: no time is on record
C35_WitnessFirstSend ==
    /\ \E j \in TicketJobs : sendResult[j] = "failure"
    /\ last_ticket_time = NoTime
    /\ ~sentSinceLoad

-----------------------------------------------------------------------------
(* Properties of the wait-time parsing *)

\* the duration a message states: the exact number of seconds of the first
\* match of each unit, the hours counted in tenths
StatedSeconds(msg) ==
    LET h == FirstMatch(hours_patterns, msg, 1)
        m == FirstMatch(minutes_patterns, msg, 1)
        s == FirstMatch(seconds_patterns, msg, 1)
        tenths(n) == n.whole * 10 + (IF n.frac = <<>> THEN 0 ELSE n.frac[1])
    IN (IF h # 0 THEN (tenths(msg[h].num) * 3600) \div 10 ELSE 0)
       + (IF m # 0 THEN LastDigits(msg[m].num) * 60 ELSE 0)
       + (IF s # 0 THEN LastDigits(msg[s].num) ELSE 0)

\* some pattern of some unit matches in the message
StatesUnit(msg) ==
    \/ FirstMatch(hours_patterns, msg, 1) # 0
    \/ FirstMatch(minutes_patterns, msg, 1) # 0
    \/ FirstMatch(seconds_patterns, msg, 1) # 0

\* C15: _parse_wait_time returns hours*3600 + minutes*60 + seconds of the
\* first match of each unit when the message states a unit, and the default
\* 3600 when the message has a wait word and states no unit.
C15_ParseIsUnitSum ==
    wait_seconds # NotParsed =>
        /\ StatesUnit(message) => wait_seconds = StatedSeconds(message)
        /\ (~StatesUnit(message) /\ HasWaitWord(message)) => wait_seconds = 3600

\* the examples of C15: "podozhdite 2 chasa 30 minut" gives 9000 and
\* "wait 45 seconds" gives 45
C15_Examples ==
    /\ parse_wait_time(<<Word("podozhdite"), Quantity(Whole(2), "chasa"),
                         Quantity(Whole(30), "minut")>>) = 9000
    /\ parse_wait_time(<<Word("wait"), Quantity(Whole(45), "seconds")>>) = 45
    /\ parse_wait_time(<<Word("wait")>>) = 3600

\* a message of 4.1 hours has been parsed to one second less than 4.1 hours
C15_HoursCutShort ==
    /\ message = <<Word("wait"), Quantity(Decimal(4, 1), "hours")>>
    /\ wait_seconds = 14759

\* a message of 0 seconds after "wait" has been parsed to the default wait
C15_ZeroBecomesDefault ==
    /\ message = <<Word("wait"), Quantity(Whole(0), "seconds")>>
    /\ wait_seconds = 3600


-----------------------------------------------------------------------------
(* Properties of the auto-raise *)

\* the least multiple of half an hour that is not below the wait
NextMultiple(wait) ==
    CHOOSE m \in {k * 1800 : k \in 0..(wait \div 1800 + 1)} : m >= wait /\ m - 1800 < wait

\* C11: _optimize_next_call returns a time that is not earlier than the
\* earliest candidate: the earliest candidate itself when it is less than
\* 1800 s away, and otherwise the current time plus the time to the earliest
\* candidate rounded up to the next multiple of 1800 s.
C11_NeverEarlierThanEarliest ==
    (raisePc = "returned" /\ all_next_times # {}) =>
        LET earliest == Earliest(all_next_times)
            wait == earliest - current_time
        IN /\ next_time >= earliest
           /\ wait < 1800 => next_time = earliest
           /\ wait >= 1800 => next_time = current_time + NextMultiple(wait)

\* a list whose earliest candidate is 1900 s away gave a wake-up 3600 s away
C11_Witness ==
    /\ raisePc = "returned"
    /\ Earliest(all_next_times) = current_time + 1900
    /\ next_time = current_time + 3600

\* a list whose earliest candidate is 70 s away gave a wake-up 70 s away
C11_WitnessUnrounded ==
    /\ raisePc = "returned"
    /\ Earliest(all_next_times) = current_time + 70
    /\ Cardinality(all_next_times) > 1
    /\ next_time = current_time + 70


\* C12: when the wake-up was rounded, every game whose raise_time lies within
\* 900 s of the rounded wake-up is bumped by the invocation that runs at that
\* wake-up: the invocation passes over no such game.
C12_GroupedAtRoundedWake ==
    lastRun.wake # 0 =>
        \A g \in lastRun.skipped : raise_time[g] - lastRun.wake > Tolerance

\* C13: after every bump attempt the raise_time of the game is set anew from
\* the time of the reply: to that time plus the interval after a success,
\* plus the parsed wait after a throttle reply with a wait, plus the short
\* delay of 60 s after a server error or another failure.
C13_RaiseTimeRecomputed ==
    LET a == lastAttempt
    IN /\ a.outcome = "success" => raise_time[a.game] = a.at + bump_interval
       /\ (a.outcome = "throttled" /\ a.wait # 0) => raise_time[a.game] = a.at + a.wait
       /\ a.outcome \in {"server_error", "other_error"} =>
              raise_time[a.game] = a.at + 60

\* C14: a bump answered with a throttle message whose parsed wait is zero
\* plans the next run of the game one hour (the default wait) after the reply.
C14_ZeroWaitGivesDefault ==
    (lastAttempt.outcome = "throttled" /\ lastAttempt.wait = 0) =>
        lastAttempt.returned = lastAttempt.at + 3600

C20_InFlightRunCompletes ==
    raisePc = "ended" => lastRun.ended # "aborted"


-----------------------------------------------------------------------------
(* Properties of the scheduler *)

\* C21: the job is idle (between invocations), running (inside _raise_lots)
\* or cancelled: an invocation starts only from the top of the loop, the
\* loop ends only by stop(), and once stop() has returned the task stays
\* ended: no invocation is started, no bump is awaited or answered and no
\* timer of a game changes, whatever the operator switches afterwards
C21_CancelledIsTerminal ==
    [][ /\ (raisePc \notin RunPcs /\ raisePc' \in RunPcs) => raisePc = "top"
        /\ (raisePc # "ended" /\ raisePc' = "ended") => (~stop_called /\ stop_called')
        /\ stop_called => /\ raisePc = "ended" /\ raisePc' = "ended"
                          /\ runs' = runs /\ lastRun' = lastRun
                          /\ lastAttempt' = lastAttempt
                          /\ raise_time' = raise_time /\ raised_time' = raised_time
                          /\ clock' = clock ]_vars

\* stop() has cancelled an invocation that had bumped a game, and the
\* operator's switch has set the event for a job that is switched on
C21_Witness ==
    /\ stop_called /\ raisePc = "ended"
    /\ lastRun.ended = "aborted" /\ lastRun.bumped # {}
    /\ bumpEnabled /\ force_check /\ toggles = MaxToggles

\* C22: trigger_immediate_check only sets the event.  Set while an
\* invocation of _raise_lots runs, it changes nothing of the invocation,
\* which goes on step by step.  A sleep that finds the event set ends at
\* once, before its end_time, the event is cleared, and the loop is back at
\* its top without the clock having moved.
C22_TriggerInterruptsSleepOnly ==
    [][ /\ (~force_check /\ force_check') =>
              /\ raisePc' = raisePc
              /\ <<current_time, all_next_times, todo, game, lastRun, lastAttempt, runs,
                    raise_time, raised_time, next_time>>' =
                 <<current_time, all_next_times, todo, game, lastRun, lastAttempt, runs,
                   raise_time, raised_time, next_time>>
        /\ (raisePc \in RunPcs /\ force_check /\ ~stop_called') =>
              (force_check' /\ raisePc' \in RunPcs \cup {"top", "sleeping"})
        /\ (raisePc = "sleeping" /\ force_check /\ raisePc' # "sleeping") =>
              /\ clock < end_time /\ clock' = clock
              /\ raisePc' \in {"top", "ended"}
              /\ raisePc' = "top" => (~force_check' /\ lastWake' = "sleep_interrupted")
      ]_vars

\* an invocation is running that started because the event ended a sleep,
\* earlier than the time the invocation before it had returned
C22_Witness ==
    /\ raisePc = "user_info"
    /\ lastRun.woken_by = "sleep_interrupted"
    /\ next_time # NotPlanned /\ lastRun.start < next_time

\* the event is set while an invocation awaits the answer to a bump
C22_WitnessInvocation == raisePc = "bumping" /\ force_check /\ lastRun.ended = "running"

C24_SleepIsChunked ==
    /\ [](raisePc = "sleeping" =>
             /\ lastRun.returned_at <= clock /\ clock < end_time
             /\ end_time <= lastRun.returned_at + SleepChunk
             /\ end_time <= next_time)
    /\ [][(raisePc = "sleeping" /\ raisePc' # "sleeping") =>
             /\ raisePc' \in {"top", "ended"}
             /\ clock' <= end_time
             /\ clock' - lastRun.returned_at <= SleepChunk]_vars
    /\ [][(raisePc = "top" /\ bumpEnabled /\ raisePc' # "top") =>
             (raisePc' = "user_info" /\ lastRun'.start = clock)]_vars

\* a stretch of SleepChunk seconds has ended before the returned time, and
\* _raise_lots runs again
C24_Witness ==
    /\ raisePc = "user_info"
    /\ lastRun.woken_by = "timer"
    /\ next_time # NotPlanned
    /\ lastRun.start < next_time
    /\ runs >= 3

\* C32: no game is starved.  An invocation that returns has awaited the bump
\* of every game it listed whose stored raise_time had passed: it passes
\* over a game only when the stored time is later than current_time.  A
\* sleep ends at most one chunk of 600 s after the invocation returned,
\* whatever time _optimize_next_call rounded to, and it does end; at the top
\* of the loop with auto-bump enabled the next invocation starts, and an
\* invocation ends.  Together: while auto-bump is enabled and the loop is not
\* cancelled, a listed game whose stored time has passed is attempted by the
\* next invocation, which starts no more than 600 s later.
C32_DueGameAttempted ==
    /\ [][lastRun.ended = "running" /\ lastRun'.ended = "returned"
             => \A g \in lastRun'.skipped : raise_time'[g] > lastRun'.start]_vars
    /\ [][raisePc = "sleeping" /\ raisePc' = "top"
             => clock' <= lastRun.returned_at + SleepChunk]_vars
    /\ (raisePc = "sleeping") ~> (raisePc = "top" \/ stop_called)
    /\ (raisePc = "top" /\ bumpEnabled /\ runs < MaxRuns)
           ~> (lastRun.ended = "running" \/ stop_called)
    /\ (lastRun.ended = "running") ~> (lastRun.ended # "running")

\* a game whose stored time passed during a sleep that was planned for a
\* rounded time is attempted by the invocation of an intermediate wake-up
C32_Witness ==
    /\ raisePc = "bumping"
    /\ raise_time[game] # 0
    /\ raise_time[game] <= lastRun.start
    /\ lastRun.woken_by = "timer"
    /\ runs > 1

\* C33: when auto-bump is enabled and the task waits in the disabled state
\* or sleeps, an invocation of _raise_lots starts, unless auto-bump is
\* switched off again or the loop is cancelled: the wait ends by the event of
\* trigger_immediate_check or by its timeout of 10 s.
LoopAtItsBound == raisePc = "top" /\ runs = MaxRuns

C33_EnabledLoopStartsInvocation ==
    /\ (bumpEnabled /\ raisePc = "disabled_wait")
           ~> (raisePc = "user_info" \/ ~bumpEnabled \/ stop_called \/ LoopAtItsBound)
    /\ (bumpEnabled /\ raisePc = "sleeping")
           ~> (raisePc = "user_info" \/ ~bumpEnabled \/ stop_called \/ LoopAtItsBound)
    /\ [][raisePc = "disabled_wait" /\ raisePc' # "disabled_wait" /\ ~stop_called'
             => /\ raisePc' = "top"
                /\ clock' <= clock + DisabledWaitTimeout]_vars

\* auto-bump was switched on while the task waited, the event ended the
\* wait and the invocation has started
C33_Witness ==
    /\ raisePc = "user_info"
    /\ lastRun.woken_by = "wait_interrupted"
    /\ toggles > 0
    /\ bumpEnabled

\* C30: bump_offers is awaited for a game only when the game has no stored
\* raise_time or the stored raise_time is not later than the clock, whatever
\* woke the loop: the end of a sleep chunk, a rounded wake-up, the event of
\* trigger_immediate_check or a switch of auto-bump.
C30_BumpNeverBeforeEligible ==
    raisePc = "bumping" => (raise_time[game] = 0 \/ raise_time[game] <= clock)

\* the loop was woken by the event after a switch, passed over a game whose
\* stored time has not come and awaits the bump of the other game
C30_Witness ==
    /\ raisePc = "bumping"
    /\ lastRun.woken_by = "sleep_interrupted"
    /\ toggles > 0
    /\ \E g \in lastRun.skipped : raise_time[g] > clock

\* a run passed over a game whose stored time has not come and awaits the
\* bump of a game whose stored time has come
C30_WitnessStoredTimeCame ==
    /\ raisePc = "bumping"
    /\ raise_time[game] # 0
    /\ \E g \in lastRun.skipped : raise_time[g] > clock

\* a run woken by a timer before any stored time has come bumps nothing
C30_WitnessEarlyWake ==
    /\ lastRun.ended = "returned"
    /\ lastRun.woken_by = "timer"
    /\ lastRun.bumped = {}
    /\ lastRun.skipped # {}
    /\ \A g \in lastRun.skipped : raise_time[g] > lastRun.returned_at

\* C17: no two invocations of the same job (message check, order check,
\* raise loop) run at the same time: an invocation of a job starts only when
\* no invocation of that job is running.
C17_InvocationsSerialized ==
    \A h \in Jobs \cup {RaiseLoop} : running[h] <= 1

\* all three jobs run at once, and a tick of the message check was skipped
\* because its previous invocation had not ended
C17_Witness ==
    /\ \A h \in Jobs \cup {RaiseLoop} : running[h] = 1
    /\ skipped["check_messages"] > 0

\* C18: a failing handler never stops a sibling job: the scheduler does not
\* stop in a step in which a handler ends, and every tick of a job starts
\* an invocation of it unless its own previous invocation is still running.
C18_JobIsolation ==
    /\ [](\A j \in Jobs : ticks = invoked[j] + skipped[j])
    /\ [][(schedulerRunning /\ ~schedulerRunning') => running' = running]_vars

\* the message check has raised on each of 10 ticks and the order check has
\* been invoked on each of them
C18_Witness ==
    /\ ticks = 10
    /\ invoked["check_messages"] = 10
    /\ failed["check_messages"] = 10
    /\ invoked["check_orders"] = 10
    /\ schedulerRunning

-----------------------------------------------------------------------------
(* Properties of the gateway *)

C26_NotFoundRetriedOnce ==
    \A c \in Callers :
        /\ nd_attempt[c] + 1 <= NextDataAttempts
        /\ resets[c] = nd_attempt[c]
        /\ reqResult[c] = "NotFoundError" => (nd_attempt[c] = 1 /\ reqPc[c] = "done")

\* one call has raised NotFoundError after its second attempt; another got
\* its data in the second attempt, with the build id fetched after the reset
C26_Witness ==
    \E c1, c2 \in Callers :
        /\ reqPc[c1] = "done" /\ reqResult[c1] = "NotFoundError" /\ resets[c1] = 1
        /\ reqPc[c2] = "done" /\ reqResult[c2] = "data" /\ resets[c2] = 1
        /\ url_build[c2] = serverBuild /\ serverBuild > 1

\* C27: a call of get_json whose attempts all failed with a server error
\* (5xx) or a network error has made MAX_RETRIES attempts, with a sleep of
\* RETRY_DELAY seconds between two attempts, before it raised
C27_TransientFailuresRetried ==
    \A c \in Callers :
        (reqPc[c] = "done" /\ reqResult[c] \in {"ServerError", "StarAPIError"}) =>
            /\ attempt[c] + 1 = MAX_RETRIES
            /\ Len(delays[c]) = MAX_RETRIES - 1
            /\ \A i \in 1..Len(delays[c]) : delays[c][i] = RETRY_DELAY

\* what the code does: never more than MAX_RETRIES attempts; a 5xx answer
\* ends the call at the attempt that received it
C27_AttemptsBounded ==
    \A c \in Callers :
        /\ attempt[c] < MAX_RETRIES
        /\ Len(delays[c]) = attempt[c] \/ (reqPc[c] = "retry_sleep" /\ Len(delays[c]) = attempt[c] + 1)
        /\ \A i \in 1..Len(delays[c]) : delays[c][i] = RETRY_DELAY * i

\* the first attempt of a call of get_json was answered 5xx and ServerError
\* has been raised
C27_ServerErrorNotRetried ==
    \E c \in Callers : reqPc[c] = "done" /\ reqResult[c] = "ServerError" /\ attempt[c] = 0

-----------------------------------------------------------------------------
(* Properties of the service lock *)

\* C31: a call of raise_lots ends (it returns or raises) when the gateway
\* calls end: it does not wait for the service lock for ever.
C31_RaiseLotsTerminates ==
    (lkPc["raise_lots"] # "idle") ~> (lkPc["raise_lots"] = "idle")

\* raise_lots waits for the lock it holds itself
C31_RaiseLotsWaitsForItself ==
    /\ lkPc["raise_lots"] = "inner_waiting"
    /\ locked
    /\ lkPc["send_message"] # "holding" /\ lkPc["bump_offers"] # "holding"

\* a call of send_message or bump_offers ends unless raise_lots is called
C31_OtherCallsTerminate ==
    \A u \in {"send_message", "bump_offers"} :
        (lkPc[u] # "idle") ~> (lkPc[u] = "idle" \/ lkCalls["raise_lots"] > 0)

-----------------------------------------------------------------------------
(* Properties of the cache file *)

\* C34: whatever the order in which the jobs 'check_messages', 'check_orders'
\* and 'cleanup' run between their awaits, the file holds the id of the last
\* completed set_last_message and the status of the last completed
\* set_last_order: no storage call writes back data that another call has
\* replaced in the meantime.
C34_NoLostUpdate ==
    /\ cacheFile.msg = doneMsg
    /\ cacheFile.ord = doneOrd
    /\ \A j \in StoreJobs : stPc[j] = "loaded" => stData[j] = cacheFile

\* the three jobs have each completed a storage call, the cleanup twice
C34_Witness ==
    /\ doneMsg > 0 /\ doneOrd > 0
    /\ ~cacheFile.old
    /\ stOps["cleanup"] > 1
    /\ \A j \in StoreJobs : stPc[j] = "idle"

-----------------------------------------------------------------------------
(* Properties of the job 'auto_bump' *)

\* C37: the scheduler never holds more than one job 'auto_bump'; after a
\* call of toggle_auto_bump the job is registered exactly when the last call
\* had enabled = true; a call with the argument of the call before it
\* changes nothing.
C37_ToggleIsIdempotent ==
    /\ [](auto_bump_jobs <= 1)
    /\ [](lastToggle # "none" => (auto_bump_jobs = 1 <=> lastToggle = "on"))
    /\ [][toggleCalls' = toggleCalls + 1 /\ lastToggle' = lastToggle
             => auto_bump_jobs' = auto_bump_jobs /\ schedulerCalls' = schedulerCalls]_vars

\* after three or more calls, of which at least one repeated the call
\* before it or the setting of start(), the last call was
\* toggle_auto_bump(True), and the job has run
C37_Witness ==
    /\ toggleCalls >= 3
    /\ schedulerCalls < toggleCalls
    /\ lastToggle = "on"
    /\ auto_bump_jobs = 1
    /\ autoBumpRuns > 0

-----------------------------------------------------------------------------
(* Properties of BuildIdCache *)

\* C38, as stated: of the callers that call get() concurrently on an empty
\* or expired cache only the first runs the fetch function; a caller that
\* waited for the lock of the cache does not fetch
C38_WaitersNeverFetch ==
    \A c \in GetCallers : getWaited[c] => ~getFetched[c]

\* a caller waited for the lock while the fetch of another failed, and ran
\* the fetch function itself
C38_WaiterFetchedAfterFailure ==
    \E c \in GetCallers :
        /\ getWaited[c]
        /\ getFetched[c]
        /\ getPc[c] = "fetching"
        /\ lastFetch = "failed"
        /\ ~resetSince

\* C38, amended: no two calls of the fetch function overlap, and a caller
\* that waited for the lock gets the cached id without calling the fetch
\* function when the last fetch succeeded, reset() has not been called since,
\* and the TTL has not passed since the fetching caller entered get()
C38_SingleFetchWhenItSucceeds ==
    /\ [](\A c, d \in GetCallers :
            getPc[c] = "fetching" /\ getPc[d] = "fetching" => c = d)
    /\ [][\A c \in GetCallers :
            /\ getPc[c] = "woken"
            /\ getPc'[c] # "woken"
            /\ lastFetch = "ok"
            /\ ~resetSince
            /\ wallTime - cached_at < BUILD_ID_CACHE_TTL
            => /\ getPc'[c] = "idle"
               /\ ~getFetched'[c]
               /\ getResult'[c] = build_id
               /\ build_id # NoBuild
               /\ UNCHANGED <<build_id, cached_at>>]_vars

\* three callers called get() on an empty cache: one fetched the id, the two
\* that waited for the lock returned it without fetching
C38_Witness ==
    \E f \in GetCallers :
        /\ getFetched[f] /\ ~getWaited[f]
        /\ lastFetch = "ok"
        /\ build_id # NoBuild
        /\ \A c \in GetCallers :
              /\ getPc[c] = "idle"
              /\ getResult[c] = build_id
              /\ c # f => getWaited[c] /\ ~getFetched[c]

\* the same on an expired cache: the id of a new build replaces the one
\* that was cached a TTL ago
C38_WitnessExpired ==
    /\ cached_at >= BUILD_ID_CACHE_TTL
    /\ build_id > 1
    /\ ~resetSince
    /\ \E c \in GetCallers :
          /\ getWaited[c] /\ ~getFetched[c]
          /\ getPc[c] = "idle"
          /\ getCalls > Cardinality(GetCallers)
          /\ getResult[c] = build_id

=============================================================================
